---- MODULE Spec2Model ----
(***************************************************************************)
(* DecisionCentral: the literal marshalling codec.                         *)
(*                                                                         *)
(* Three programs carry a copy of the codec:                               *)
(*   src/flask/DecisionCentral.py   convertIn / convertOut    (Flask)      *)
(*   src/DecisionCentral.py         decisionCentralHandler.convertIn /     *)
(*                                  convertAtString / convertOut (Handler) *)
(*   src/questioner.py              convertIn / convertAtString /          *)
(*                                  convertOut                (Questioner) *)
(*                                                                         *)
(* Python values are tagged records:                                       *)
(*   [t |-> "int", n]   [t |-> "float", m]  (m = value * 1000)             *)
(*   [t |-> "bool", b]  [t |-> "None"]      [t |-> "str", s]               *)
(*   [t |-> "list", items]   [t |-> "dict", keys, vals]                    *)
(*   [t |-> "timedelta", ms] (signed total milliseconds)                   *)
(*   [t |-> "date", y, mo, d]                                              *)
(*   [t |-> "time", h, mi, s, tz]   [t |-> "datetime", y, mo, d, h, mi, s, *)
(*   tz]  (tz = "" when the value is naive, else the zone's name)          *)
(*   [t |-> "tuple", items]                                                *)
(* and an exception leaving a function is [t |-> "raise", exc].            *)
(* A Python str is a TLA+ string; s[i] is SubSeq(s, i+1, i+1).             *)
(***************************************************************************)
EXTENDS Integers, Sequences, FiniteSets, TLC

VARIABLES fn, arg, ret, after, fn0, arg0,
          server, decisionServices, servicesBefore, request, response,
          handlers, threads

vars == <<fn, arg, ret, after, fn0, arg0,
          server, decisionServices, servicesBefore, request, response,
          handlers, threads>>

(***************************************************************************)
(* Bounds of the model.                                                    *)
(***************************************************************************)
MaxComp == 2        \* duration components range over 0..MaxComp
MaxHandlers == 1    \* at most MaxHandlers stream handlers are left on the logger

(***************************************************************************)
(* Python values.                                                          *)
(***************************************************************************)
PyInt(n) == [t |-> "int", n |-> n]
PyFloat(m) == [t |-> "float", m |-> m]
PyBool(b) == [t |-> "bool", b |-> b]
PyNone == [t |-> "None"]
PyStr(s) == [t |-> "str", s |-> s]
PyList(items) == [t |-> "list", items |-> items]
PyDict(keys, vals) == [t |-> "dict", keys |-> keys, vals |-> vals]
PyTimedelta(ms) == [t |-> "timedelta", ms |-> ms]
PyDate(y, mo, d) == [t |-> "date", y |-> y, mo |-> mo, d |-> d]
PyTime(h, mi, s, tz) == [t |-> "time", h |-> h, mi |-> mi, s |-> s, tz |-> tz]
PyDateTime(y, mo, d, h, mi, s, tz) ==
    [t |-> "datetime", y |-> y, mo |-> mo, d |-> d, h |-> h, mi |-> mi, s |-> s, tz |-> tz]
PyTuple(items) == [t |-> "tuple", items |-> items]
Raise(exc) == [t |-> "raise", exc |-> exc]

IsRaise(v) == v.t = "raise"

\* isinstance(v, int): bool is a subclass of int
IsInstanceInt(v) == v.t \in {"int", "bool"}
\* isinstance(v, datetime.date): datetime.datetime is a subclass of datetime.date
IsInstanceDate(v) == v.t \in {"date", "datetime"}

\* float(v) for an int or a bool
FloatOfInt(v) == IF v.t = "bool" THEN PyFloat(IF v.b THEN 1000 ELSE 0) ELSE PyFloat(v.n * 1000)

(***************************************************************************)
(* Python str primitives.                                                  *)
(***************************************************************************)
Char(s, i) == SubSeq(s, i, i)                 \* 1-based
From(s, i) == SubSeq(s, i, Len(s))            \* s[i-1:]
Chars(s) == {Char(s, i) : i \in 1..Len(s)}

DigitSet == {"0", "1", "2", "3", "4", "5", "6", "7", "8", "9"}
LowerSet == {"a", "b", "c", "d", "e", "f", "g", "h", "i", "j", "k", "l", "m",
             "n", "o", "p", "q", "r", "s", "t", "u", "v", "w", "x", "y", "z"}
UpperSet == {"A", "B", "C", "D", "E", "F", "G", "H", "I", "J", "K", "L", "M",
             "N", "O", "P", "Q", "R", "S", "T", "U", "V", "W", "X", "Y", "Z"}

DigitVal(c) == CHOOSE d \in 0..9 : Char("0123456789", d + 1) = c
DigitChar(d) == Char("0123456789", d + 1)

AllDigits(s) == Len(s) > 0 /\ Chars(s) \subseteq DigitSet

RECURSIVE DigitsVal(_)
DigitsVal(s) == IF Len(s) = 0 THEN 0
                ELSE DigitsVal(SubSeq(s, 1, Len(s) - 1)) * 10 + DigitVal(Char(s, Len(s)))

\* '%d' % n  and str(n), for an integer n
RECURSIVE NatStr(_)
NatStr(n) == IF n < 10 THEN DigitChar(n) ELSE NatStr(n \div 10) \o DigitChar(n % 10)
IntStr(n) == IF n < 0 THEN "-" \o NatStr(-n) ELSE NatStr(n)
\* '%02d' / '%03d' / '%04d'
Pad2(n) == IF n < 10 THEN "0" \o NatStr(n) ELSE NatStr(n)
Pad3(n) == IF n < 100 THEN "0" \o Pad2(n) ELSE NatStr(n)
Pad4(n) == IF n < 1000 THEN "0" \o Pad3(n) ELSE NatStr(n)

\* s.find(c) as a 1-based index, 0 when c does not occur
Find(s, c) == IF \E i \in 1..Len(s) : Char(s, i) = c
              THEN CHOOSE i \in 1..Len(s) : Char(s, i) = c /\ \A j \in 1..(i - 1) : Char(s, j) # c
              ELSE 0

\* s.split(c)
RECURSIVE Split(_, _)
Split(s, c) == LET i == Find(s, c)
               IN IF i = 0 THEN <<s>>
                  ELSE <<SubSeq(s, 1, i - 1)>> \o Split(From(s, i + 1), c)

\* int(s) for a str: the value, or ValueError
IntOfStr(s) ==
    IF AllDigits(s) THEN PyInt(DigitsVal(s))
    ELSE IF Len(s) > 1 /\ Char(s, 1) = "-" /\ AllDigits(From(s, 2)) THEN PyInt(-DigitsVal(From(s, 2)))
    ELSE Raise("ValueError")

\* the decimal forms float(s) is given here: [-]digits[.digits], up to three decimals
IsDecimal(s) ==
    LET u == IF Len(s) > 0 /\ Char(s, 1) = "-" THEN From(s, 2) ELSE s
        p == Split(u, ".")
    IN /\ Len(p) \in {1, 2}
       /\ AllDigits(p[1])
       /\ Len(p) = 2 => AllDigits(p[2])

\* the fraction digits f as thousandths
Thousandths(f) == DigitsVal(SubSeq(f \o "000", 1, 3))

\* float(s) for a str: the value (in thousandths), or ValueError
FloatOfStr(s) ==
    IF ~IsDecimal(s) THEN Raise("ValueError")
    ELSE LET neg == Char(s, 1) = "-"
             u == IF neg THEN From(s, 2) ELSE s
             p == Split(u, ".")
             mag == DigitsVal(p[1]) * 1000 + (IF Len(p) = 2 THEN Thousandths(p[2]) ELSE 0)
         IN PyFloat(IF neg THEN -mag ELSE mag)

\* int(x) for a float x (in thousandths): truncation towards zero
IntOfFloat(m) == IF m >= 0 THEN m \div 1000 ELSE -((-m) \div 1000)

\* The decimals below 4 with three fraction digits whose IEEE-754 product with
\* 1000 falls just under the exact integer (1.001 * 1000 = 1000.9999999999999).
LossyThousandths == {1001, 1003, 1005, 1007, 1009, 1011, 1013, 1015, 1017, 1019, 1021, 1023,
                     2002, 2006, 2010, 2014, 2018, 2022, 2026, 2030, 2034, 2038, 2042, 2046}

\* int(x * 1000) for a float x >= 0 (in thousandths)
IntOfFloatTimes1000(m) == IF m \in LossyThousandths THEN m - 1 ELSE m

(***************************************************************************)
(* pySFeel.SFeelLexer.tokenize: the token types of a text, in order.       *)
(* The lexer is a library outside the repository; it is modelled from the  *)
(* classifier contract: one token per literal, the kind of a duration      *)
(* decided by its designator letters (its components are parsed by the     *)
(* caller), blanks ignored, characters that start no token skipped.        *)
(***************************************************************************)
IsStringLit(w) == /\ Len(w) >= 2
                  /\ Char(w, 1) = "\"" /\ Char(w, Len(w)) = "\""
                  /\ \A i \in 2..(Len(w) - 1) : Char(w, i) # "\""

IsNumberLit(w) == Len(w) > 0 /\ Char(w, 1) # "-" /\ IsDecimal(w)

IsNameLit(w) == /\ Len(w) > 0
                /\ Char(w, 1) \in LowerSet \cup UpperSet
                /\ Chars(w) \subseteq LowerSet \cup UpperSet \cup DigitSet \cup {"_"}

IsDateLit(w) == /\ Len(w) = 10
                /\ AllDigits(SubSeq(w, 1, 4)) /\ Char(w, 5) = "-"
                /\ AllDigits(SubSeq(w, 6, 7)) /\ Char(w, 8) = "-"
                /\ AllDigits(SubSeq(w, 9, 10))

IsClockLit(w) == /\ Len(w) = 8
                 /\ AllDigits(SubSeq(w, 1, 2)) /\ Char(w, 3) = ":"
                 /\ AllDigits(SubSeq(w, 4, 5)) /\ Char(w, 6) = ":"
                 /\ AllDigits(SubSeq(w, 7, 8))

IsZoneName(z) == /\ Len(z) > 0
                 /\ Chars(z) \subseteq LowerSet \cup UpperSet \cup DigitSet \cup {"_", "/"}

\* primary, or primary@zone: the primary part, and whether the zone part is a name
PrimaryOf(w, i) == IF i = 0 THEN w ELSE SubSeq(w, 1, i - 1)
ZoneSuffixOk(w, i) == i = 0 \/ IsZoneName(From(w, i + 1))

IsTimeLit(w) == IsClockLit(PrimaryOf(w, Find(w, "@"))) /\ ZoneSuffixOk(w, Find(w, "@"))

IsDateClock(w) == /\ Len(w) = 19
                  /\ IsDateLit(SubSeq(w, 1, 10)) /\ Char(w, 11) = "T"
                  /\ IsClockLit(SubSeq(w, 12, 19))

IsDateTimeLit(w) == IsDateClock(PrimaryOf(w, Find(w, "@"))) /\ ZoneSuffixOk(w, Find(w, "@"))

\* the text after the optional sign and the P of a duration; "" when there is no P
DurationBody(w) == LET u == IF Len(w) > 0 /\ Char(w, 1) = "-" THEN From(w, 2) ELSE w
                   IN IF Len(u) > 1 /\ Char(u, 1) = "P" THEN From(u, 2) ELSE ""

IsDTDurationLit(w) == LET b == DurationBody(w)
                      IN /\ Len(b) > 0
                         /\ Chars(b) \subseteq DigitSet \cup LowerSet \cup {".", "D", "T", "H", "M", "S"}
                         /\ Chars(b) \cap {"D", "T"} # {}

IsYMDurationLit(w) == LET b == DurationBody(w)
                      IN /\ Len(b) > 0
                         /\ Chars(b) \subseteq DigitSet \cup LowerSet \cup {"Y", "M"}
                         /\ "Y" \in Chars(b)

\* the tokens of one blank-free word
TokensOfWord(w) ==
    IF Len(w) = 0 THEN <<>>
    ELSE IF IsNumberLit(w) THEN <<"NUMBER">>
    ELSE IF w \in {"true", "false", "null"} THEN <<"BOOLEAN">>
    ELSE IF IsDTDurationLit(w) THEN <<"DTDURATION">>
    ELSE IF IsYMDurationLit(w) THEN <<"YMDURATION">>
    ELSE IF IsDateTimeLit(w) THEN <<"DATETIME">>
    ELSE IF IsDateLit(w) THEN <<"DATE">>
    ELSE IF IsTimeLit(w) THEN <<"TIME">>
    ELSE IF IsStringLit(w) THEN <<"STRING">>
    ELSE IF IsNameLit(w) THEN <<"NAME">>
    ELSE <<>>

RECURSIVE TokensOfWords(_)
TokensOfWords(ws) == IF Len(ws) = 0 THEN <<>>
                     ELSE TokensOfWord(Head(ws)) \o TokensOfWords(Tail(ws))

tokenize(text) == IF IsStringLit(text) THEN <<"STRING">>
                  ELSE TokensOfWords(Split(text, " "))

(***************************************************************************)
(* dateutil: the parser and the zone resolver.                             *)
(***************************************************************************)
\* the zone names the host's zone database knows
KnownZones == {"Australia/Sydney", "UTC"}

\* dateutil.tz.gettz(name): the zone, or None
gettz(name) == IF name \in KnownZones THEN PyStr(name) ELSE PyNone

IsLeap(y) == (y % 4 = 0 /\ y % 100 # 0) \/ y % 400 = 0
DaysIn(y, mo) == IF mo = 2 THEN (IF IsLeap(y) THEN 29 ELSE 28)
                 ELSE IF mo \in {4, 6, 9, 11} THEN 30 ELSE 31

ValidDate(y, mo, d) == y >= 1 /\ mo \in 1..12 /\ d >= 1 /\ d <= DaysIn(y, mo)
ValidClock(h, mi, s) == h <= 23 /\ mi <= 59 /\ s <= 59

\* dateutil.parser.parse(s) for the ISO shapes: a naive datetime, or ParserError.
\* A text with no date gets the date of the day of the call, here 0-0-0; every
\* caller of that case keeps the time alone.
dateutilParse(s) ==
    LET hasDate == Len(s) >= 10 /\ IsDateLit(SubSeq(s, 1, 10))
        clock == IF hasDate THEN (IF Len(s) > 11 THEN From(s, 12) ELSE "") ELSE s
        y == IF hasDate THEN DigitsVal(SubSeq(s, 1, 4)) ELSE 0
        mo == IF hasDate THEN DigitsVal(SubSeq(s, 6, 7)) ELSE 0
        d == IF hasDate THEN DigitsVal(SubSeq(s, 9, 10)) ELSE 0
        hasClock == IsClockLit(clock)
        h == IF hasClock THEN DigitsVal(SubSeq(clock, 1, 2)) ELSE 0
        mi == IF hasClock THEN DigitsVal(SubSeq(clock, 4, 5)) ELSE 0
        sec == IF hasClock THEN DigitsVal(SubSeq(clock, 7, 8)) ELSE 0
    IN IF ~hasDate /\ ~hasClock THEN Raise("ParserError")
       ELSE IF hasDate /\ Len(s) > 10 /\ ~(Char(s, 11) = "T" /\ hasClock) THEN Raise("ParserError")
       ELSE IF hasDate /\ ~ValidDate(y, mo, d) THEN Raise("ParserError")
       ELSE IF ~ValidClock(h, mi, sec) THEN Raise("ParserError")
       ELSE PyDateTime(y, mo, d, h, mi, sec, "")

\* datetime.date(), datetime.timetz(), replace(tzinfo=zone)
DateOf(dt) == PyDate(dt.y, dt.mo, dt.d)
TimetzOf(dt) == PyTime(dt.h, dt.mi, dt.s, dt.tz)
ReplaceTzinfo(v, zone) == [v EXCEPT !.tz = zone.s]

(***************************************************************************)
(* Flask convertIn: the duration branches.  The DTDURATION branch is a     *)
(* straight line of steps over thisValue, days, seconds and milliseconds;  *)
(* a step is skipped once an exception has been raised (exc # "").         *)
(***************************************************************************)
DTState(neg, thisValue) ==
    [neg |-> neg, days |-> 0, seconds |-> 0, milliseconds |-> 0,
     thisValue |-> thisValue, inTime |-> FALSE, exc |-> ""]

\* sign, "skip -", "skip P"
FlaskDTSign(text) ==
    IF Char(text, 1) = "-" THEN DTState(TRUE, From(text, 3)) ELSE DTState(FALSE, From(text, 2))

\* parts = thisValue.split('D'); days = int(parts[0]); thisValue = parts[1]
FlaskDTDaysOf(st, parts, days) ==
    IF Len(parts[1]) > 0 /\ IsRaise(days) THEN [st EXCEPT !.exc = days.exc]
    ELSE IF Len(parts) < 2 THEN [st EXCEPT !.exc = "IndexError"]
    ELSE [st EXCEPT !.days = IF Len(parts[1]) > 0 THEN days.n ELSE 0, !.thisValue = parts[2]]

FlaskDTDaysParts(st, parts) == FlaskDTDaysOf(st, parts, IntOfStr(parts[1]))

\* if thisValue[0] != 'T': the days
FlaskDTDays(st) ==
    IF Len(st.thisValue) = 0 THEN [st EXCEPT !.exc = "IndexError"]
    ELSE IF Char(st.thisValue, 1) # "T" THEN FlaskDTDaysParts(st, Split(st.thisValue, "D"))
    ELSE st

\* if len(thisValue) > 0: thisValue = thisValue[1:], and the three steps of the block
FlaskDTSkipT(st) ==
    IF st.exc = "" /\ Len(st.thisValue) > 0
    THEN [st EXCEPT !.inTime = TRUE, !.thisValue = From(st.thisValue, 2)]
    ELSE st

InTimeBlock(st) == st.exc = "" /\ st.inTime

\* parts = thisValue.split('H'); seconds = int(parts[0]) * 60 * 60; thisValue = parts[1]
FlaskDTHoursOf(st, parts, hours) ==
    IF Len(parts) # 2 THEN st
    ELSE IF Len(parts[1]) = 0 THEN [st EXCEPT !.thisValue = parts[2]]
    ELSE IF IsRaise(hours) THEN [st EXCEPT !.exc = hours.exc]
    ELSE [st EXCEPT !.seconds = hours.n * 60 * 60, !.thisValue = parts[2]]

FlaskDTHoursParts(st, parts) == FlaskDTHoursOf(st, parts, IntOfStr(parts[1]))

FlaskDTHours(st) == IF InTimeBlock(st) THEN FlaskDTHoursParts(st, Split(st.thisValue, "H")) ELSE st

\* C23 - a variant whose minutes replace the seconds counted so far
FlaskDTMinutesOfAssigning(st, parts, mins) ==
    IF Len(parts) # 2 THEN st
    ELSE IF Len(parts[1]) = 0 THEN [st EXCEPT !.thisValue = parts[2]]
    ELSE IF IsRaise(mins) THEN [st EXCEPT !.exc = mins.exc]
    ELSE [st EXCEPT !.seconds = mins.n * 60, !.thisValue = parts[2]]

\* parts = thisValue.split('M'); seconds += int(parts[0]) * 60; thisValue = parts[1]
FlaskDTMinutesOf(st, parts, mins) ==
    IF Len(parts) # 2 THEN st
    ELSE IF Len(parts[1]) = 0 THEN [st EXCEPT !.thisValue = parts[2]]
    ELSE IF IsRaise(mins) THEN [st EXCEPT !.exc = mins.exc]
    ELSE [st EXCEPT !.seconds = @ + mins.n * 60, !.thisValue = parts[2]]

FlaskDTMinutesParts(st, parts) == FlaskDTMinutesOf(st, parts, IntOfStr(parts[1]))

FlaskDTMinutes(st) == IF InTimeBlock(st) THEN FlaskDTMinutesParts(st, Split(st.thisValue, "M")) ELSE st

\* parts = thisValue.split('S'); sPart = float(parts[0]); seconds += int(sPart);
\* milliseconds = int((sPart * 1000)) % 1000
FlaskDTSecondsOf(st, parts, sPart) ==
    IF Len(parts) # 2 \/ Len(parts[1]) = 0 THEN st
    ELSE IF IsRaise(sPart) THEN [st EXCEPT !.exc = sPart.exc]
    ELSE [st EXCEPT !.seconds = @ + IntOfFloat(sPart.m),
                    !.milliseconds = IntOfFloatTimes1000(sPart.m) % 1000]

FlaskDTSecondsParts(st, parts) == FlaskDTSecondsOf(st, parts, FloatOfStr(parts[1]))

FlaskDTSeconds(st) == IF InTimeBlock(st) THEN FlaskDTSecondsParts(st, Split(st.thisValue, "S")) ELSE st

\* timedelta(days=days, seconds=seconds, milliseconds=milliseconds), negated under a sign
FlaskTimedelta(st) ==
    IF st.exc # "" THEN Raise(st.exc)
    ELSE IF st.neg
    THEN PyTimedelta(-(st.days * 86400000 + st.seconds * 1000 + st.milliseconds))
    ELSE PyTimedelta(st.days * 86400000 + st.seconds * 1000 + st.milliseconds)

\* the DTDURATION branch
FlaskDTDuration(text) ==
    FlaskTimedelta(FlaskDTSeconds(FlaskDTMinutes(FlaskDTHours(FlaskDTSkipT(FlaskDTDays(FlaskDTSign(text)))))))

\* months = int(parts[0]) * 12; parts = parts[1].split('M'); months += int(parts[0])
FlaskYMMonthsOf(neg, years, parts, months) ==
    IF Len(parts[1]) > 0 /\ IsRaise(months) THEN months
    ELSE IF neg THEN PyInt(-(years * 12 + (IF Len(parts[1]) > 0 THEN months.n ELSE 0)))
    ELSE PyInt(years * 12 + (IF Len(parts[1]) > 0 THEN months.n ELSE 0))

FlaskYMMonths(neg, years, parts) == FlaskYMMonthsOf(neg, years, parts, IntOfStr(parts[1]))

FlaskYMYearsOf(neg, parts, years) ==
    IF IsRaise(years) THEN years
    ELSE IF Len(parts) < 2 THEN Raise("IndexError")
    ELSE FlaskYMMonths(neg, years.n, Split(parts[2], "M"))

FlaskYMYears(neg, parts) == FlaskYMYearsOf(neg, parts, IntOfStr(parts[1]))

\* the YMDURATION branch; the sign test compares the whole text with '-', and the
\* one "skip P" that follows takes the first character off
FlaskYMDuration(text) ==
    IF text = "-" THEN FlaskYMYears(TRUE, Split(From(text, 3), "Y"))
    ELSE FlaskYMYears(FALSE, Split(From(text, 2), "Y"))

(***************************************************************************)
(* Flask convertIn: the date and time branches.                            *)
(***************************************************************************)
\* C7 - a variant that rejects a zone name the resolver does not know
FlaskZoneOfRejecting(value, thisZone) ==
    IF thisZone # PyNone THEN ReplaceTzinfo(value, thisZone) ELSE Raise("UnknownTimeZoneError")

\* thisZone = gettz(parts[1]); value.replace(tzinfo=thisZone) when the zone is known
FlaskZoneOf(value, thisZone) == IF thisZone # PyNone THEN ReplaceTzinfo(value, thisZone) ELSE value

FlaskZone(value, parts) ==
    IF IsRaise(value) THEN value
    ELSE IF Len(parts) > 1 THEN FlaskZoneOf(value, gettz(parts[2]))
    ELSE value

\* the DATETIME branch
FlaskDateTimeParts(parts) == FlaskZone(dateutilParse(parts[1]), parts)
FlaskDateTime(thisValue) == FlaskDateTimeParts(Split(thisValue, "@"))

\* the DATE branch
FlaskDateOf(parsed) == IF IsRaise(parsed) THEN parsed ELSE DateOf(parsed)
FlaskDate(thisValue) == FlaskDateOf(dateutilParse(thisValue))

\* the TIME branch
FlaskTimeOf(parsed) == IF IsRaise(parsed) THEN parsed ELSE TimetzOf(parsed)
FlaskTimeParts(parts) == FlaskZone(FlaskTimeOf(dateutilParse(parts[1])), parts)
FlaskTime(thisValue) == FlaskTimeParts(Split(thisValue, "@"))

(***************************************************************************)
(* Flask convertIn.                                                        *)
(***************************************************************************)
\* the index of the first exception in a sequence of results, 0 when there is none
FirstRaise(conv) ==
    IF \E i \in 1..Len(conv) : IsRaise(conv[i])
    THEN CHOOSE i \in 1..Len(conv) : IsRaise(conv[i]) /\ \A j \in 1..(i - 1) : ~IsRaise(conv[j])
    ELSE 0

\* a container's items after a loop of item assignments that stops at the first exception
AssignedItems(items, conv) ==
    LET k == FirstRaise(conv)
    IN [i \in 1..Len(items) |-> IF k = 0 \/ i < k THEN conv[i] ELSE items[i]]

\* the NAME branch
FlaskName(thisValue) ==
    IF thisValue \in {"true", "True", "TRUE"} THEN PyBool(TRUE)
    ELSE IF thisValue \in {"false", "False", "FALSE"} THEN PyBool(FALSE)
    ELSE IF thisValue \in {"none", "None", "null"} THEN PyNone
    ELSE PyStr(thisValue)

\* the BOOLEAN branch; a text that is none of the three falls off the end of the function
FlaskBoolean(thisValue) ==
    IF thisValue = "true" THEN PyBool(TRUE)
    ELSE IF thisValue = "false" THEN PyBool(FALSE)
    ELSE PyNone

\* the branch taken for the tokens of a non-empty str
FlaskConvertInTokens(thisValue, yaccTokens) ==
    IF Len(yaccTokens) # 1
    THEN IF Char(thisValue, 1) # "\"" \/ Char(thisValue, Len(thisValue)) # "\""
         THEN PyStr("\"" \o thisValue \o "\"")
         ELSE PyStr(thisValue)
    ELSE IF yaccTokens[1] = "NUMBER" THEN FloatOfStr(thisValue)
    ELSE IF yaccTokens[1] = "BOOLEAN" THEN FlaskBoolean(thisValue)
    ELSE IF yaccTokens[1] = "NAME" THEN FlaskName(thisValue)
    ELSE IF yaccTokens[1] = "STRING" THEN PyStr(SubSeq(thisValue, 2, Len(thisValue) - 1))
    ELSE IF yaccTokens[1] = "DTDURATION" THEN FlaskDTDuration(thisValue)
    ELSE IF yaccTokens[1] = "YMDURATION" THEN FlaskYMDuration(thisValue)
    ELSE IF yaccTokens[1] = "DATETIME" THEN FlaskDateTime(thisValue)
    ELSE IF yaccTokens[1] = "DATE" THEN FlaskDate(thisValue)
    ELSE IF yaccTokens[1] = "TIME" THEN FlaskTime(thisValue)
    ELSE PyStr(thisValue)

\* the str branch
FlaskConvertInStr(thisValue) ==
    IF thisValue = "" THEN PyNone ELSE FlaskConvertInTokens(thisValue, tokenize(thisValue))

\* convertIn(thisValue): the value returned, or the exception raised.
\* The dict and list branches assign the items in place and return nothing.
RECURSIVE FlaskConvertIn(_)
FlaskConvertIn(thisValue) ==
    IF IsInstanceInt(thisValue) THEN FloatOfInt(thisValue)
    ELSE IF thisValue.t = "dict"
    THEN LET conv == [i \in 1..Len(thisValue.vals) |-> FlaskConvertIn(thisValue.vals[i])]
         IN IF FirstRaise(conv) # 0 THEN conv[FirstRaise(conv)] ELSE PyNone
    ELSE IF thisValue.t = "list"
    THEN LET conv == [i \in 1..Len(thisValue.items) |-> FlaskConvertIn(thisValue.items[i])]
         IN IF FirstRaise(conv) # 0 THEN conv[FirstRaise(conv)] ELSE PyNone
    ELSE IF thisValue.t = "str" THEN FlaskConvertInStr(thisValue.s)
    ELSE thisValue

\* the caller's argument after convertIn(thisValue) has returned or raised
FlaskConvertInAfter(thisValue) ==
    IF thisValue.t = "dict"
    THEN PyDict(thisValue.keys,
                AssignedItems(thisValue.vals,
                              [i \in 1..Len(thisValue.vals) |-> FlaskConvertIn(thisValue.vals[i])]))
    ELSE IF thisValue.t = "list"
    THEN PyList(AssignedItems(thisValue.items,
                              [i \in 1..Len(thisValue.items) |-> FlaskConvertIn(thisValue.items[i])]))
    ELSE thisValue

(***************************************************************************)
(* pySFeel.SFeelParser.sFeelParse on a literal: (status, value).  The      *)
(* parser is a library outside the repository; it is modelled on literal   *)
(* texts from the decoder's rules for the text inside the wrapping escape: *)
(* a well-formed literal gives its value, anything else gives 'errors'.    *)
(***************************************************************************)
\* Reading a duration literal component by component: rest is the text not yet
\* read, total the value read so far in thousandths of the unit, ok whether the
\* text read so far follows the grammar.
StrictState(rest) == [rest |-> rest, total |-> 0, ok |-> TRUE]

StrictTakeNum(st, i, unit, whole, num) ==
    IF (IF whole THEN AllDigits(num) ELSE IsNumberLit(num))
    THEN [rest |-> From(st.rest, i + 1), total |-> st.total + FloatOfStr(num).m * unit, ok |-> st.ok]
    ELSE [st EXCEPT !.ok = FALSE]

StrictTakeAt(st, i, unit, whole) ==
    IF i = 0 THEN st ELSE StrictTakeNum(st, i, unit, whole, SubSeq(st.rest, 1, i - 1))

\* an optional component ending in the designator c
StrictTake(st, c, unit, whole) == StrictTakeAt(st, Find(st.rest, c), unit, whole)

\* the T that introduces the time components, which must then follow
StrictTakeT(st) ==
    IF st.rest = "" THEN st
    ELSE IF Char(st.rest, 1) = "T" /\ Len(st.rest) > 1 THEN [st EXCEPT !.rest = From(st.rest, 2)]
    ELSE [st EXCEPT !.ok = FALSE]

StrictDone(neg, st, body) ==
    IF st.ok /\ st.rest = "" /\ body # ""
    THEN [errors |-> FALSE, value |-> IF neg THEN -st.total ELSE st.total]
    ELSE [errors |-> TRUE, value |-> 0]

\* [-]P[nD][T[nH][nM][n[.n]S]]: the milliseconds
StrictDTDuration(w) ==
    StrictDone(Char(w, 1) = "-",
               StrictTake(StrictTake(StrictTake(StrictTakeT(
                   StrictTake(StrictState(DurationBody(w)), "D", 86400, TRUE)),
                   "H", 3600, TRUE), "M", 60, TRUE), "S", 1, FALSE),
               DurationBody(w))

\* [-]PnY[nM]: the months, in thousandths
StrictYMDuration(w) ==
    StrictDone(Char(w, 1) = "-",
               StrictTake(StrictTake(StrictState(DurationBody(w)), "Y", 12, TRUE), "M", 1, TRUE),
               IF Find(w, "Y") = 0 THEN "" ELSE DurationBody(w))

SFeelDuration(parsed, isDT) ==
    IF parsed.errors THEN [errors |-> TRUE, value |-> PyNone]
    ELSE IF isDT THEN [errors |-> FALSE, value |-> PyTimedelta(parsed.value)]
    ELSE [errors |-> FALSE, value |-> PyInt(parsed.value \div 1000)]

SFeelErrors == [errors |-> TRUE, value |-> PyNone]
SFeelValue(v) == IF IsRaise(v) THEN SFeelErrors ELSE [errors |-> FALSE, value |-> v]

\* a date, time or date-time literal, with the zone of a known @zone suffix
SFeelTemporal(kind, text) ==
    LET i == Find(text, "@")
        parsed == dateutilParse(IF i = 0 THEN text ELSE SubSeq(text, 1, i - 1))
        zone == IF i = 0 THEN PyNone ELSE gettz(From(text, i + 1))
        zoned == IF zone = PyNone THEN parsed ELSE ReplaceTzinfo(parsed, zone)
    IN IF IsRaise(parsed) THEN SFeelErrors
       ELSE IF kind = "DATE" THEN SFeelValue(DateOf(parsed))
       ELSE IF kind = "TIME" THEN SFeelValue(TimetzOf(zoned))
       ELSE SFeelValue(zoned)

sFeelParseTokens(text, tokens) ==
    IF Len(tokens) # 1 THEN SFeelErrors
    ELSE IF tokens[1] = "NUMBER" THEN SFeelValue(FloatOfStr(text))
    ELSE IF tokens[1] = "BOOLEAN"
    THEN SFeelValue(IF text = "null" THEN PyNone ELSE PyBool(text = "true"))
    ELSE IF tokens[1] = "STRING" THEN SFeelValue(PyStr(SubSeq(text, 2, Len(text) - 1)))
    ELSE IF tokens[1] = "DTDURATION" THEN SFeelDuration(StrictDTDuration(text), TRUE)
    ELSE IF tokens[1] = "YMDURATION" THEN SFeelDuration(StrictYMDuration(text), FALSE)
    ELSE IF tokens[1] \in {"DATE", "TIME", "DATETIME"} THEN SFeelTemporal(tokens[1], text)
    ELSE SFeelErrors

sFeelParse(text) == sFeelParseTokens(text, tokenize(text))

(***************************************************************************)
(* http.server handler: convertAtString and convertIn.                     *)
(***************************************************************************)
\* (s[0:2] == '@"') and (s[-1] == '"')
IsAtString(s) == Len(s) >= 2 /\ SubSeq(s, 1, 2) = "@\"" /\ Char(s, Len(s)) = "\""

\* thisString[2:-1]
AtStringInner(thisString) == SubSeq(thisString, 3, Len(thisString) - 1)

HandlerConvertAtString(thisString) ==
    LET parsed == sFeelParse(AtStringInner(thisString))
    IN IF parsed.errors THEN PyStr(thisString) ELSE parsed.value

\* convertIn(newValue): items are converted in place and the argument is returned
\* the assignment to one item of a dict or list; nested is convertIn(item)
HandlerConvertInItem(item, nested) ==
    IF IsInstanceInt(item) THEN FloatOfInt(item)
    ELSE IF item.t = "str" /\ IsAtString(item.s) THEN HandlerConvertAtString(item.s)
    ELSE IF item.t \in {"dict", "list"} THEN nested
    ELSE item

RECURSIVE HandlerConvertIn(_)
HandlerConvertIn(newValue) ==
    IF newValue.t = "dict"
    THEN PyDict(newValue.keys,
                [i \in 1..Len(newValue.vals) |->
                    HandlerConvertInItem(newValue.vals[i], HandlerConvertIn(newValue.vals[i]))])
    ELSE IF newValue.t = "list"
    THEN PyList([i \in 1..Len(newValue.items) |->
                    HandlerConvertInItem(newValue.items[i], HandlerConvertIn(newValue.items[i]))])
    ELSE IF newValue.t = "str" /\ IsAtString(newValue.s) THEN HandlerConvertAtString(newValue.s)
    ELSE newValue

(***************************************************************************)
(* questioner: convertAtString and convertIn.                              *)
(***************************************************************************)
QuestionerConvertAtString(thisString) ==
    LET parsed == sFeelParse(AtStringInner(thisString))
    IN IF parsed.errors THEN PyStr(thisString) ELSE parsed.value

\* the assignment to one item of a dict or list; nested is convertIn(item)
QuestionerConvertInItem(item, nested) ==
    IF IsInstanceInt(item) THEN FloatOfInt(item)
    ELSE IF item.t = "str" /\ IsAtString(item.s) THEN QuestionerConvertAtString(item.s)
    ELSE IF item.t \in {"dict", "list"} THEN nested
    ELSE item

RECURSIVE QuestionerConvertIn(_)
QuestionerConvertIn(newValue) ==
    IF newValue.t = "dict"
    THEN PyDict(newValue.keys,
                [i \in 1..Len(newValue.vals) |->
                    QuestionerConvertInItem(newValue.vals[i], QuestionerConvertIn(newValue.vals[i]))])
    ELSE IF newValue.t = "list"
    THEN PyList([i \in 1..Len(newValue.items) |->
                    QuestionerConvertInItem(newValue.items[i], QuestionerConvertIn(newValue.items[i]))])
    ELSE IF newValue.t = "str" /\ IsAtString(newValue.s) THEN QuestionerConvertAtString(newValue.s)
    ELSE newValue

(***************************************************************************)
(* Printing: isoformat(), str() and the duration formats.                  *)
(***************************************************************************)
\* int(a / b) for b > 0: truncation towards zero
TruncDiv(a, b) == IF a >= 0 THEN a \div b ELSE -((-a) \div b)

\* the UTC offset isoformat() prints for a zone: a date-time asks the zone at its
\* own date, a time asks it with no date and gets an offset from a fixed zone only
ZoneOffset(tz, hasDate) ==
    IF tz = "UTC" THEN "+00:00"
    ELSE IF tz = "Australia/Sydney" /\ hasDate THEN "+11:00"
    ELSE ""

DateIso(v) == Pad4(v.y) \o "-" \o Pad2(v.mo) \o "-" \o Pad2(v.d)
ClockIso(v) == Pad2(v.h) \o ":" \o Pad2(v.mi) \o ":" \o Pad2(v.s)

\* C27 - a variant that separates the date and the time of a datetime with a blank
IsoFormatBlank(v) ==
    IF v.t = "date" THEN DateIso(v)
    ELSE IF v.t = "datetime" THEN DateIso(v) \o " " \o ClockIso(v) \o ZoneOffset(v.tz, TRUE)
    ELSE ClockIso(v) \o ZoneOffset(v.tz, FALSE)

\* date.isoformat(), datetime.isoformat() (the separator is 'T' by default), time.isoformat()
IsoFormat(v) ==
    IF v.t = "date" THEN DateIso(v)
    ELSE IF v.t = "datetime" THEN DateIso(v) \o "T" \o ClockIso(v) \o ZoneOffset(v.tz, TRUE)
    ELSE ClockIso(v) \o ZoneOffset(v.tz, FALSE)

\* '%f' % x for a float x >= 0 (in thousandths)
FormatF(m) == NatStr(m \div 1000) \o "." \o Pad3(m % 1000) \o "000"

\* str(v) for a number or a str
StrOf(v) ==
    IF v.t = "int" THEN IntStr(v.n)
    ELSE IF v.t = "float"
    THEN (IF v.m < 0 THEN "-" ELSE "")
         \o LET a == IF v.m < 0 THEN -v.m ELSE v.m
                f == a % 1000
            IN NatStr(a \div 1000) \o "."
               \o (IF f = 0 THEN "0"
                   ELSE IF f % 100 = 0 THEN NatStr(f \div 100)
                   ELSE IF f % 10 = 0 THEN Pad2(f \div 10)
                   ELSE Pad3(f))
    ELSE IF v.t = "bool" THEN (IF v.b THEN "True" ELSE "False")
    ELSE IF v.t = "None" THEN "None"
    ELSE v.s

\* '%sP%dDT%dH%dM%fS' of the handler and the questioner, from total_seconds()
WrappedDuration(ms) ==
    LET sign == IF ms < 0 THEN "-" ELSE ""
        duration == IF ms < 0 THEN -ms ELSE ms
        secs == duration % 60000
        duration1 == duration \div 60000
        mins == duration1 % 60
        duration2 == duration1 \div 60
        hours == duration2 % 24
        days == duration2 \div 24
    IN sign \o "P" \o NatStr(days) \o "DT" \o NatStr(hours) \o "H" \o NatStr(mins) \o "M"
       \o FormatF(secs) \o "S"

\* '%sP%dY%dM' of the handler and the questioner
WrappedMonths(n) ==
    LET sign == IF n < 0 THEN "-" ELSE ""
        thisValue == IF n < 0 THEN -n ELSE n
        years == thisValue \div 12
        months == thisValue % 12
    IN sign \o "P" \o NatStr(years) \o "Y" \o NatStr(months) \o "M"

\* '@"' + lowEnd + str(lowVal) + ' .. ' + str(highVal) + highEnd
WrappedRange(items) ==
    "@\"" \o items[1].s \o StrOf(items[2]) \o " .. " \o StrOf(items[3]) \o items[4].s

(***************************************************************************)
(* http.server handler: convertOut.                                        *)
(***************************************************************************)
RECURSIVE HandlerConvertOut(_)
HandlerConvertOut(thisValue) ==
    IF IsInstanceDate(thisValue) THEN PyStr("@\"" \o IsoFormat(thisValue) \o "\"")
    ELSE IF thisValue.t = "time" THEN PyStr("@\"" \o IsoFormat(thisValue) \o "\"")
    ELSE IF thisValue.t = "timedelta" THEN PyStr("@\"" \o WrappedDuration(thisValue.ms) \o "\"")
    ELSE IF thisValue.t = "bool" THEN PyStr(IF thisValue.b THEN "true" ELSE "false")
    ELSE IF thisValue.t = "int" THEN PyStr("@\"" \o WrappedMonths(thisValue.n) \o "\"")
    ELSE IF thisValue.t = "tuple" /\ Len(thisValue.items) = 4 THEN PyStr(WrappedRange(thisValue.items))
    ELSE IF thisValue.t = "None" THEN PyStr("null")
    ELSE IF thisValue.t = "dict"
    THEN PyDict(thisValue.keys, [i \in 1..Len(thisValue.vals) |-> HandlerConvertOut(thisValue.vals[i])])
    ELSE IF thisValue.t = "list"
    THEN PyList([i \in 1..Len(thisValue.items) |-> HandlerConvertOut(thisValue.items[i])])
    ELSE thisValue

(***************************************************************************)
(* questioner: convertOut.                                                 *)
(***************************************************************************)
RECURSIVE QuestionerConvertOut(_)
QuestionerConvertOut(thisValue) ==
    IF IsInstanceDate(thisValue) THEN PyStr("@\"" \o IsoFormat(thisValue) \o "\"")
    ELSE IF thisValue.t = "time" THEN PyStr("@\"" \o IsoFormat(thisValue) \o "\"")
    ELSE IF thisValue.t = "timedelta" THEN PyStr("@\"" \o WrappedDuration(thisValue.ms) \o "\"")
    ELSE IF thisValue.t = "bool" THEN thisValue
    ELSE IF thisValue.t = "None" THEN thisValue
    ELSE IF thisValue.t = "int" THEN PyStr("@\"" \o WrappedMonths(thisValue.n) \o "\"")
    ELSE IF thisValue.t = "tuple" /\ Len(thisValue.items) = 4 THEN PyStr(WrappedRange(thisValue.items))
    ELSE IF thisValue.t = "dict"
    THEN PyDict(thisValue.keys, [i \in 1..Len(thisValue.vals) |-> QuestionerConvertOut(thisValue.vals[i])])
    ELSE IF thisValue.t = "list"
    THEN PyList([i \in 1..Len(thisValue.items) |-> QuestionerConvertOut(thisValue.items[i])])
    ELSE thisValue

(***************************************************************************)
(* Flask: convertOut.                                                      *)
(***************************************************************************)
\* 'P%dDT%dH%dM%dS' from total_seconds(); the sign of the duration is not taken off
PlainDuration(ms) ==
    LET secs == ms % 60000                       \* float % 60 is never negative
        duration1 == TruncDiv(ms, 60000)
        mins == duration1 % 60
        duration2 == TruncDiv(duration1, 60)
        hours == duration2 % 24
        days == TruncDiv(duration2, 24)
    IN "P" \o IntStr(days) \o "DT" \o NatStr(hours) \o "H" \o NatStr(mins) \o "M"
       \o NatStr(secs \div 1000) \o "S"

\* C15 - a variant whose last branch returns str(thisValue) for a number
FlaskConvertOutStringifying(thisValue) ==
    IF IsInstanceDate(thisValue) THEN PyStr(IsoFormat(thisValue))
    ELSE IF thisValue.t = "time" THEN PyStr(IsoFormat(thisValue))
    ELSE IF thisValue.t = "timedelta" THEN PyStr(PlainDuration(thisValue.ms))
    ELSE IF thisValue.t \in {"dict", "list"} THEN PyNone
    ELSE IF thisValue.t = "float" THEN PyStr(StrOf(thisValue))
    ELSE thisValue

\* convertOut(thisValue); the dict and list branches assign in place and return nothing
RECURSIVE FlaskConvertOut(_)
FlaskConvertOut(thisValue) ==
    IF IsInstanceDate(thisValue) THEN PyStr(IsoFormat(thisValue))
    ELSE IF thisValue.t = "time" THEN PyStr(IsoFormat(thisValue))
    ELSE IF thisValue.t = "timedelta" THEN PyStr(PlainDuration(thisValue.ms))
    ELSE IF thisValue.t \in {"dict", "list"} THEN PyNone
    ELSE thisValue

\* the caller's argument after convertOut(thisValue)
FlaskConvertOutAfter(thisValue) ==
    IF thisValue.t = "dict"
    THEN PyDict(thisValue.keys, [i \in 1..Len(thisValue.vals) |-> FlaskConvertOut(thisValue.vals[i])])
    ELSE IF thisValue.t = "list"
    THEN PyList([i \in 1..Len(thisValue.items) |-> FlaskConvertOut(thisValue.items[i])])
    ELSE thisValue

(***************************************************************************)
(* The values the codec is called with.                                    *)
(***************************************************************************)
\* a component of a generated duration literal: absent (-1) or 0..MaxComp
Comp == -1..MaxComp

CompText(n, c) == IF n < 0 THEN "" ELSE NatStr(n) \o c

\* [-]P[dD][T[hH][mM][sS]]
DTText(neg, d, h, m, s) ==
    (IF neg THEN "-" ELSE "") \o "P" \o CompText(d, "D")
    \o (IF h < 0 /\ m < 0 /\ s < 0 THEN "" ELSE "T")
    \o CompText(h, "H") \o CompText(m, "M") \o CompText(s, "S")

DTLiterals ==
    {DTText(neg, d, h, m, s) : neg \in BOOLEAN, d \in Comp, h \in Comp, m \in Comp, s \in Comp}
    \ {"P", "-P"}

\* [-]PyY[mM]
YMText(neg, y, m) == (IF neg THEN "-" ELSE "") \o "P" \o CompText(y, "Y") \o CompText(m, "M")

YMLiterals == {YMText(neg, y, m) : neg \in BOOLEAN, y \in 0..MaxComp, m \in Comp}

\* literals of the duration grammars with larger or fractional components
LongDurations == {"P3DT4H5M6S", "-P3DT4H5M6S", "PT36H", "PT90M", "PT1.5S", "PT0.25S", "PT1.001S",
                  "P1Y6M", "-P1Y6M", "P10Y11M", "P0Y13M"}

\* duration-shaped texts outside the grammars
MalformedDurations == {"PxDT", "P1xDT2H", "PT1M2M", "PT1H2H", "P1D2DT", "PTxS", "PT1.5H", "PxY", "P1YxM"}

Keywords == {"true", "True", "TRUE", "tRUE", "false", "False", "FALSE", "fALSE",
             "none", "None", "NONE", "null", "Null", "NULL"}

PlainTexts == {"", "5", "12", "0", "3.5", "12.25", "apples", "x1", "Px",
               "12 apples", "a b", "P1D apples", "\"abc\"", "\"12 apples\"", "\"\"", "\"a\" b", " "}

Zones == {"Australia/Sydney", "UTC", "Nowhere", "Mars/Olympus"}

ClockTexts == {"10:00:00", "23:59:59", "00:00:00"}
DateTexts == {"2020-01-01", "1999-12-31", "2024-02-29"}
DateTimeTexts == {d \o "T" \o c : d \in DateTexts, c \in ClockTexts}

TemporalLiterals ==
    DateTexts \cup ClockTexts \cup DateTimeTexts
    \cup {p \o "@" \o z : p \in ClockTexts \cup DateTimeTexts, z \in Zones}

\* date-shaped and time-shaped texts the calendar parser rejects
MalformedTemporals == {"2020-02-30", "2020-13-01", "25:00:00", "2020-01-01T10:61:00"}

\* texts in the wrapping escape
AtStrings == {"@\"" \o s \o "\"" : s \in {"P3DT4H5M6S", "-P1Y6M", "P1D", "5", "true", "abc", "12 apples",
                                         "\"abc\"", "2020-01-01", "10:00:00", "PxDT",
                                         "2020-01-01T10:00:00@Australia/Sydney"}}

Texts == DTLiterals \cup YMLiterals \cup LongDurations \cup MalformedDurations \cup Keywords
         \cup PlainTexts \cup TemporalLiterals \cup MalformedTemporals \cup AtStrings

\* the scalars of a JSON payload
WireScalars == {PyInt(0), PyInt(5), PyInt(-3), PyFloat(2500), PyBool(TRUE), PyBool(FALSE), PyNone}

\* the items of the lists and dicts of a JSON payload
WireItems == {PyInt(5), PyBool(TRUE), PyBool(FALSE), PyNone, PyFloat(2500),
              PyStr(""), PyStr("7"), PyStr("apples"), PyStr("12 apples"), PyStr("P1DT2H"),
              PyStr("PxDT"), PyStr("@\"P1D\""),
              PyList(<<PyInt(5), PyStr("true")>>), PyDict(<<"k">>, <<PyInt(5)>>)}

ListsOf(items) == {PyList(<<>>)} \cup {PyList(<<a>>) : a \in items}
                  \cup {PyList(<<a, b>>) : a \in items, b \in items}

DictsOf(items) == {PyDict(<<>>, <<>>)} \cup {PyDict(<<"a">>, <<a>>) : a \in items}
                  \cup {PyDict(<<"a", "b">>, <<a, b>>) : a \in items, b \in items}

\* what the request layer passes to convertIn: json.loads() values and form texts
WireValues == WireScalars \cup {PyStr(s) : s \in Texts} \cup ListsOf(WireItems) \cup DictsOf(WireItems)

\* the values of the rules engine's results
EngineScalars ==
    {PyFloat(5000), PyFloat(2500), PyBool(TRUE), PyBool(FALSE), PyNone, PyStr("apples"), PyStr(""),
     PyInt(18), PyInt(-18), PyInt(0), PyInt(12),
     PyDate(2020, 1, 1), PyTime(10, 0, 0, ""), PyTime(10, 0, 0, "UTC"),
     PyDateTime(2020, 1, 1, 10, 0, 0, ""), PyDateTime(2020, 1, 1, 10, 0, 0, "Australia/Sydney"),
     PyTuple(<<PyStr("["), PyFloat(1000), PyFloat(5000), PyStr(")")>>),
     PyTuple(<<PyStr("("), PyInt(1), PyInt(5), PyStr("]")>>),
     PyTuple(<<PyFloat(1000), PyFloat(5000)>>)}
    \cup {PyTimedelta(ms) : ms \in {0, 1500, 6000, 273906000, -273906000, -5000, 86400000, -90000, 59999}}

EngineValues == EngineScalars \cup ListsOf(EngineScalars) \cup DictsOf(EngineScalars)

(***************************************************************************)
(* The state machine: a request calls a codec function on a value from     *)
(* outside, and may then give the result to a second codec function.  fn,  *)
(* arg, ret and after are the function called last, its argument, what it  *)
(* returned or raised, and the argument object after the call; fn0 and     *)
(* arg0 are the call whose result the last call was given, "none" when its *)
(* argument came from outside.                                             *)
(***************************************************************************)
Init == /\ fn = "none" /\ arg = PyNone /\ ret = PyNone /\ after = PyNone
        /\ fn0 = "none" /\ arg0 = PyNone
        /\ server = "none" /\ decisionServices = {} /\ servicesBefore = {}
        /\ request = [op |-> "none"] /\ response = [status |-> <<>>]
        /\ handlers = 0 /\ threads = <<>>

\* the result of the first call, when it returned a value
Chainable == IF fn # "none" /\ fn0 = "none" /\ ~IsRaise(ret) THEN {ret} ELSE {}

\* the arguments of a call: the first call's come from outside
Args(chained, outside) == IF chained THEN Chainable ELSE IF fn = "none" THEN outside ELSE {}

\* the argument object after a call that returned r: a list or dict is changed
\* in place and returned, any other value is left as it was
AfterOf(x, r) == IF x.t \in {"list", "dict"} THEN r ELSE x

Call(f, x, r, a, chained) ==
    /\ fn' = f /\ arg' = x /\ ret' = r /\ after' = a
    /\ fn0' = IF chained THEN fn ELSE "none"
    /\ arg0' = IF chained THEN arg ELSE PyNone
    /\ UNCHANGED <<server, decisionServices, servicesBefore, request, response, handlers, threads>>

CallFlaskConvertIn ==
    \E chained \in BOOLEAN : \E x \in Args(chained, WireValues) :
        Call("FlaskConvertIn", x, FlaskConvertIn(x), FlaskConvertInAfter(x), chained)

CallHandlerConvertIn ==
    \E chained \in BOOLEAN : \E x \in Args(chained, WireValues) :
        Call("HandlerConvertIn", x, HandlerConvertIn(x), AfterOf(x, HandlerConvertIn(x)), chained)

CallQuestionerConvertIn ==
    \E chained \in BOOLEAN : \E x \in Args(chained, WireValues) :
        Call("QuestionerConvertIn", x, QuestionerConvertIn(x), AfterOf(x, QuestionerConvertIn(x)), chained)

CallFlaskConvertOut ==
    \E chained \in BOOLEAN : \E x \in Args(chained, EngineValues) :
        Call("FlaskConvertOut", x, FlaskConvertOut(x), FlaskConvertOutAfter(x), chained)

CallHandlerConvertOut ==
    \E chained \in BOOLEAN : \E x \in Args(chained, EngineValues) :
        Call("HandlerConvertOut", x, HandlerConvertOut(x), AfterOf(x, HandlerConvertOut(x)), chained)

CallQuestionerConvertOut ==
    \E chained \in BOOLEAN : \E x \in Args(chained, EngineValues) :
        Call("QuestionerConvertOut", x, QuestionerConvertOut(x), AfterOf(x, QuestionerConvertOut(x)), chained)

Next == \/ CallFlaskConvertIn
        \/ CallHandlerConvertIn
        \/ CallQuestionerConvertIn
        \/ CallFlaskConvertOut
        \/ CallHandlerConvertOut
        \/ CallQuestionerConvertOut

Spec == Init /\ [][Next]_vars

(***************************************************************************)
(* Properties of the codec.                                                *)
(***************************************************************************)
ConvertInFns == {"FlaskConvertIn", "HandlerConvertIn", "QuestionerConvertIn"}
WrappedConvertOutFns == {"HandlerConvertOut", "QuestionerConvertOut"}

\* the token kinds of the decodable literal classes
LiteralClasses == {"NUMBER", "BOOLEAN", "STRING", "YMDURATION", "DTDURATION", "DATE", "TIME", "DATETIME"}

\* a text that is one well-formed literal of a decodable class
IsLiteral(s) ==
    /\ s # ""
    /\ s \notin MalformedDurations \cup MalformedTemporals
    /\ Len(tokenize(s)) = 1
    /\ tokenize(s)[1] \in LiteralClasses

\* the first call was given a text from outside
FirstCallOnText(f) == fn = f /\ fn0 = "none" /\ arg.t = "str"

\* what a round trip of literal text L may give back: the text, the text in the
\* wrapping escape, or for a number or boolean literal the native value
RoundTripOf(L, r) ==
    \/ r = PyStr(L)
    \/ r = PyStr("@\"" \o L \o "\"")
    \/ tokenize(L)[1] \in {"NUMBER", "BOOLEAN"} /\ r = FlaskConvertIn(PyStr(L))

\* C1 - round trip: decoding a literal text of a decodable class with
\* convertIn never fails, and encoding the decoded value with a wrapped-mode
\* convertOut gives back the text of the literal, character for character.
C1_RoundTrip ==
    /\ (FirstCallOnText("FlaskConvertIn") /\ IsLiteral(arg.s)) => ~IsRaise(ret)
    /\ (/\ fn \in WrappedConvertOutFns
        /\ fn0 = "FlaskConvertIn"
        /\ arg0.t = "str"
        /\ IsLiteral(arg0.s)) => RoundTripOf(arg0.s, ret)

\* C1 - the day-time duration of the claim, decoded and encoded again in wrapped mode
C1_DurationEncoded ==
    /\ fn = "HandlerConvertOut"
    /\ fn0 = "FlaskConvertIn"
    /\ arg0 = PyStr("P3DT4H5M6S")
    /\ arg = PyTimedelta(273906000)
    /\ ret = PyStr("@\"P3DT4H5M6.000000S\"")

\* the first call was given a value from outside
FirstCall(fns) == fn \in fns /\ fn0 = "none"

\* wire value v is, or holds at some depth, a value of type ty
RECURSIVE Contains(_, _)
Contains(v, ty) ==
    \/ v.t = ty
    \/ v.t = "list" /\ \E i \in 1..Len(v.items) : Contains(v.items[i], ty)
    \/ v.t = "dict" /\ \E i \in 1..Len(v.vals) : Contains(v.vals[i], ty)

\* r has a float of the same value wherever wire value v has an integer
RECURSIVE Promoted(_, _)
Promoted(v, r) ==
    IF v.t = "int" THEN r = PyFloat(v.n * 1000)
    ELSE IF v.t = "list"
    THEN \A i \in 1..Len(v.items) :
             Contains(v.items[i], "int") =>
                 r.t = "list" /\ i <= Len(r.items) /\ Promoted(v.items[i], r.items[i])
    ELSE IF v.t = "dict"
    THEN \A i \in 1..Len(v.vals) :
             Contains(v.vals[i], "int") =>
                 r.t = "dict" /\ r.keys = v.keys /\ Promoted(v.vals[i], r.vals[i])
    ELSE TRUE

\* C2 - numeric promotion: every convertIn variant returns a float of the same
\* value for a wire integer, at top level and at any depth inside a list or a
\* dict; no integer remains an integer.
C2_NumericPromotion == FirstCall(ConvertInFns) => Promoted(arg, ret)

\* C2 - the http.server handler's convertIn was given the wire integer 5
C2_HandlerInteger ==
    /\ fn = "HandlerConvertIn" /\ fn0 = "none"
    /\ arg = PyInt(5)
    /\ ret = PyInt(5)

\* r has the same boolean wherever wire value v has a boolean
RECURSIVE BooleansKept(_, _)
BooleansKept(v, r) ==
    IF v.t = "bool" THEN r = v
    ELSE IF v.t = "list"
    THEN \A i \in 1..Len(v.items) :
             Contains(v.items[i], "bool") =>
                 r.t = "list" /\ i <= Len(r.items) /\ BooleansKept(v.items[i], r.items[i])
    ELSE IF v.t = "dict"
    THEN \A i \in 1..Len(v.vals) :
             Contains(v.vals[i], "bool") =>
                 r.t = "dict" /\ r.keys = v.keys /\ BooleansKept(v.vals[i], r.vals[i])
    ELSE TRUE

\* C3 - native boolean passthrough: convertIn returns a native boolean as the
\* same boolean, never as a number, at top level and inside lists and dicts.
C3_BooleanPassthrough == FirstCall(ConvertInFns) => BooleansKept(arg, ret)

\* C3 - the Flask convertIn was given the native boolean true
C3_FlaskTrue ==
    /\ fn = "FlaskConvertIn" /\ fn0 = "none"
    /\ arg = PyBool(TRUE)
    /\ ret = PyFloat(1000)

UpperLetters == "ABCDEFGHIJKLMNOPQRSTUVWXYZ"
LowerLetters == "abcdefghijklmnopqrstuvwxyz"

\* s with its upper-case letters in lower case
RECURSIVE ToLower(_)
ToLower(s) ==
    IF s = "" THEN ""
    ELSE (IF Find(UpperLetters, Char(s, 1)) # 0
          THEN Char(LowerLetters, Find(UpperLetters, Char(s, 1)))
          ELSE Char(s, 1)) \o ToLower(From(s, 2))

KeywordSpellings == {"true", "false", "none", "null"}

\* the value a keyword stands for
KeywordValue(k) == IF k = "true" THEN PyBool(TRUE) ELSE IF k = "false" THEN PyBool(FALSE) ELSE PyNone

\* the text is one token that the lexer reports as BOOLEAN or NAME
IsWordToken(s) == s # "" /\ Len(tokenize(s)) = 1 /\ tokenize(s)[1] \in {"BOOLEAN", "NAME"}

\* C4 - keyword coverage: a one-token text that spells true, false, none or
\* null in any letter case decodes to true, false, Null, Null, whether its
\* token is BOOLEAN or NAME; no other BOOLEAN or NAME token decodes to Null.
C4_KeywordCoverage ==
    (FirstCallOnText("FlaskConvertIn") /\ IsWordToken(arg.s)) =>
        IF ToLower(arg.s) \in KeywordSpellings
        THEN ret = KeywordValue(ToLower(arg.s))
        ELSE ret # PyNone

\* C4 - the Flask convertIn was given the keyword null in upper case
C4_UpperNull ==
    /\ fn = "FlaskConvertIn" /\ fn0 = "none"
    /\ arg = PyStr("NULL")
    /\ tokenize(arg.s) = <<"NAME">>
    /\ ret = PyStr("NULL")

\* the text is ambiguous (no token, or more than one) or one NAME that is no keyword
IsFallbackText(s) ==
    /\ s # ""
    /\ ~IsAtString(s)
    /\ \/ Len(tokenize(s)) # 1
       \/ tokenize(s)[1] = "NAME" /\ ToLower(s) \notin KeywordSpellings

\* C5 - ambiguity fallback: a non-empty text of no token or several tokens,
\* or of one NAME token that is no keyword, decodes without error to a string
\* that is exactly the input text.
C5_AmbiguityFallback ==
    (FirstCall(ConvertInFns) /\ arg.t = "str" /\ IsFallbackText(arg.s)) => ret = arg

\* C5 - the Flask convertIn was given the two-token text 12 apples
C5_FlaskTwoTokens ==
    /\ fn = "FlaskConvertIn" /\ fn0 = "none"
    /\ arg = PyStr("12 apples")
    /\ Len(tokenize(arg.s)) = 2
    /\ ret = PyStr("\"12 apples\"")

\* day-time duration texts with a component that is not a number
NonNumericDurations == {"PxDT", "P1xDT2H", "PTxS"}

\* day-time duration texts that repeat a designator
RepeatedDesignators == {"PT1M2M", "PT1H2H", "P1D2DT"}

\* C6 - malformed duration rejection: decoding a text classified as a
\* day-time duration that has a non-numeric component or repeats a designator
\* ends in a format error; it never returns a duration.
C6_MalformedDurationRejected ==
    (/\ FirstCallOnText("FlaskConvertIn")
     /\ arg.s \in NonNumericDurations \cup RepeatedDesignators
     /\ tokenize(arg.s) = <<"DTDURATION">>) => IsRaise(ret)

\* C6 - the Flask convertIn was given a day-time duration with two minute
\* components and returned the zero duration
C6_RepeatedMinutes ==
    /\ fn = "FlaskConvertIn" /\ fn0 = "none"
    /\ arg = PyStr("PT1M2M")
    /\ tokenize(arg.s) = <<"DTDURATION">>
    /\ ret = PyTimedelta(0)

\* the text is one TIME or DATETIME literal of the form primary@zone
IsZonedLiteral(s) ==
    /\ s # ""
    /\ tokenize(s) \in {<<"TIME">>, <<"DATETIME">>}
    /\ Len(Split(s, "@")) = 2

\* what decoding primary@zone gives, from what decoding the primary alone gives
ZonedAs(primary, zone) ==
    IF IsRaise(primary) THEN primary
    ELSE IF gettz(zone) # PyNone THEN [primary EXCEPT !.tz = zone]
    ELSE primary

C8_Idempotence ==
    (fn \in ConvertInFns /\ fn0 = fn /\ ~Contains(arg, "str")) => ret = arg

\* C8 - the Flask convertIn decoded the text true to a boolean and, given that
\* boolean, returned a number
C8_BooleanDecodedTwice ==
    /\ fn = "FlaskConvertIn" /\ fn0 = "FlaskConvertIn"
    /\ arg0 = PyStr("true")
    /\ arg = PyBool(TRUE)
    /\ ret = PyFloat(1000)

IsNullInput(v) == v = PyNone \/ v = PyStr("")

\* wire value v is, or holds at some depth, a native null or the empty string
RECURSIVE HoldsNullInput(_)
HoldsNullInput(v) ==
    \/ IsNullInput(v)
    \/ v.t = "list" /\ \E i \in 1..Len(v.items) : HoldsNullInput(v.items[i])
    \/ v.t = "dict" /\ \E i \in 1..Len(v.vals) : HoldsNullInput(v.vals[i])

\* r has None wherever wire value v has a native null or the empty string
RECURSIVE NullsDecoded(_, _)
NullsDecoded(v, r) ==
    IF IsNullInput(v) THEN r = PyNone
    ELSE IF v.t = "list"
    THEN \A i \in 1..Len(v.items) :
             HoldsNullInput(v.items[i]) =>
                 r.t = "list" /\ i <= Len(r.items) /\ NullsDecoded(v.items[i], r.items[i])
    ELSE IF v.t = "dict"
    THEN \A i \in 1..Len(v.vals) :
             HoldsNullInput(v.vals[i]) =>
                 r.t = "dict" /\ r.keys = v.keys /\ NullsDecoded(v.vals[i], r.vals[i])
    ELSE TRUE

\* C9 - null decoding: every convertIn variant returns None for a native null
\* and for the empty string, at top level and inside lists and dicts, and
\* raises no error for either.
C9_NullDecoding == FirstCall(ConvertInFns) => NullsDecoded(arg, ret)

\* C9 - the http.server handler's convertIn was given the empty string
C9_HandlerEmptyString ==
    /\ fn = "HandlerConvertIn" /\ fn0 = "none"
    /\ arg = PyStr("")
    /\ ret = PyStr("")

\* what codec function f returns for x
Apply(f, x) ==
    CASE f = "FlaskConvertIn" -> FlaskConvertIn(x)
      [] f = "HandlerConvertIn" -> HandlerConvertIn(x)
      [] f = "QuestionerConvertIn" -> QuestionerConvertIn(x)
      [] f = "FlaskConvertOut" -> FlaskConvertOut(x)
      [] f = "HandlerConvertOut" -> HandlerConvertOut(x)
      [] OTHER -> QuestionerConvertOut(x)

\* the values a list or dict holds, in order
ItemsOf(v) == IF v.t = "list" THEN v.items ELSE v.vals

\* r is the container v with f applied to each value, the order and the keys kept
Elementwise(f, v, r) ==
    /\ r.t = v.t
    /\ v.t = "dict" => r.keys = v.keys
    /\ Len(ItemsOf(r)) = Len(ItemsOf(v))
    /\ \A i \in 1..Len(ItemsOf(v)) : ItemsOf(r)[i] = Apply(f, ItemsOf(v)[i])

\* C10 - composite recursion: convertIn and convertOut return, for a list, a
\* list of the same length whose i-th element is the function applied to the
\* i-th input element, and for a dict a dict of the same keys in the same
\* order whose values are the function applied to the input values; neither
\* returns None for a list or a dict.
C10_CompositeRecursion ==
    (/\ fn # "none" /\ fn0 = "none"
     /\ arg.t \in {"list", "dict"}
     /\ \A i \in 1..Len(ItemsOf(arg)) : ~IsRaise(Apply(fn, ItemsOf(arg)[i])))
    => ret # PyNone /\ Elementwise(fn, arg, ret)

\* C10 - the Flask convertIn was given a list, converted its items in place
\* and returned None
C10_FlaskListReturnsNone ==
    /\ fn = "FlaskConvertIn" /\ fn0 = "none"
    /\ arg = PyList(<<PyInt(5), PyStr("apples")>>)
    /\ after = PyList(<<PyFloat(5000), PyStr("apples")>>)
    /\ ret = PyNone

ConvertOutFns == {"FlaskConvertOut", "HandlerConvertOut", "QuestionerConvertOut"}

\* a value of the rules engine that is no number, boolean, null or string:
\* a duration of either kind, a date, a time, a date-time or a range
IsNonPrimitive(v) ==
    \/ v.t \in {"timedelta", "int", "date", "time", "datetime"}
    \/ v.t = "tuple" /\ Len(v.items) = 4

\* the text a range has between the markers of the wrapping escape
RangeText(items) == items[1].s \o StrOf(items[2]) \o " .. " \o StrOf(items[3]) \o items[4].s

\* C11 - wrapped markers: the wrapped-mode convertOut of the handler and of the
\* questioner returns, for a duration, a date, a time, a date-time and a
\* 4-tuple range, a string that begins with @" and ends with ", which the
\* decoder's test for the wrapping escape accepts; for a range the text
\* between the markers is lowSymbol + low + ' .. ' + high + highSymbol.
C11_WrappedMarkers ==
    (FirstCall(WrappedConvertOutFns) /\ IsNonPrimitive(arg)) =>
        /\ ret.t = "str"
        /\ IsAtString(ret.s)
        /\ arg.t = "tuple" => AtStringInner(ret.s) = RangeText(arg.items)

\* C11 - the handler's convertOut was given a range and returned a text with
\* the opening marker and no closing quote
C11_RangeUnclosed ==
    /\ fn = "HandlerConvertOut" /\ fn0 = "none"
    /\ arg = PyTuple(<<PyStr("["), PyFloat(1000), PyFloat(5000), PyStr(")")>>)
    /\ ret = PyStr("@\"[1.0 .. 5.0)")
    /\ ~IsAtString(ret.s)

\* a Number, Boolean, Null or String, or a list or dict built from them
RECURSIVE IsPrimitiveValue(_)
IsPrimitiveValue(v) ==
    \/ v.t \in {"float", "bool", "None", "str"}
    \/ v.t = "list" /\ \A i \in 1..Len(v.items) : IsPrimitiveValue(v.items[i])
    \/ v.t = "dict" /\ \A i \in 1..Len(v.vals) : IsPrimitiveValue(v.vals[i])

\* C12 - mode independence of primitives: for a Number, Boolean, Null or
\* String, and for a list or dict built from them, the handler's wrapped-mode
\* convertOut and the Flask plain-mode convertOut return equal wire values.
C12_ModeIndependence ==
    (FirstCall({"HandlerConvertOut"}) /\ IsPrimitiveValue(arg)) => ret = FlaskConvertOut(arg)

\* C12 - the handler's convertOut was given the boolean true and returned the
\* text true, where the Flask convertOut returns the boolean
C12_BooleanModesDiffer ==
    /\ fn = "HandlerConvertOut" /\ fn0 = "none"
    /\ arg = PyBool(TRUE)
    /\ ret = PyStr("true")
    /\ FlaskConvertOut(arg) = PyBool(TRUE)

\* the convertIn variants the request layers call
RequestConvertInFns == {"FlaskConvertIn", "HandlerConvertIn"}

\* C13 - wrapping escape on decode: for a literal text L, each convertIn that a
\* request layer calls gives for the wrapped text @"L" the value it gives for
\* the bare text L: the escape is stripped and the inner text is decoded by
\* the same rules.
C13_WrappingEscape ==
    (/\ FirstCall(RequestConvertInFns)
     /\ arg.t = "str"
     /\ IsAtString(arg.s)
     /\ IsLiteral(AtStringInner(arg.s))) => ret = Apply(fn, PyStr(AtStringInner(arg.s)))

\* C13 - the handler's convertIn was given the wrapped duration @"P1D" and
\* returned a duration, where it returns the bare text P1D as a string
C13_HandlerBareDiffers ==
    /\ fn = "HandlerConvertIn" /\ fn0 = "none"
    /\ arg = PyStr("@\"P1D\"")
    /\ ret = PyTimedelta(86400000)
    /\ HandlerConvertIn(PyStr("P1D")) = PyStr("P1D")

\* a value no branch of convertOut prints: a float, a str, a tuple that is no range
HasNoPrinter(v) == v.t \in {"float", "str"} \/ (v.t = "tuple" /\ Len(v.items) # 4)

\* C15 - identity fallback: every convertOut returns a value that is none of
\* date, datetime, time, timedelta, bool, int, 4-tuple, None, dict or list -
\* a float, a plain string - as the same value, unchanged, and never fails.
C15_IdentityFallback ==
    (fn \in ConvertOutFns /\ HasNoPrinter(arg)) => ret = arg /\ after = arg

\* C15 - the Flask convertOut was given the float 2.5 and returned it
C15_FloatReturned ==
    /\ fn = "FlaskConvertOut" /\ fn0 = "none"
    /\ arg = PyFloat(2500)
    /\ ret = PyFloat(2500)

\* C16 - purity: a call of convertIn or convertOut on a list or dict leaves the
\* caller's container, and the containers nested in it, as they were before
\* the call.
C16_InputUnchanged ==
    (fn # "none" /\ arg.t \in {"list", "dict"}) => after = arg

\* C16 - the handler's convertIn was given a list holding an integer and
\* returned that list with the integer replaced by a float
C16_HandlerListChanged ==
    /\ fn = "HandlerConvertIn" /\ fn0 = "none"
    /\ arg = PyList(<<PyInt(5)>>)
    /\ after = PyList(<<PyFloat(5000)>>)
    /\ ret = after

(***************************************************************************)
(* The request layer.  server is the program that runs: the Flask          *)
(* application or the http.server handler.  decisionServices is its         *)
(* registry, a dict from a service name to the rules engine loaded from an *)
(* upload, held as a set of entries with one entry a name.  request and     *)
(* response are the last request and what was sent for it: the status      *)
(* lines in the order sent, the exception that left the handler ("" when    *)
(* none did), the body (PyNone when none was written), the engine found     *)
(* under the request's name, and what was handed to its decide().          *)
(* servicesBefore is the registry as the last request found it.            *)
(***************************************************************************)
ALLOWED_EXTENSIONS == {"xlsx", "xlsm", "xml", "dmn"}
Excel_EXTENSIONS == {"xlsx", "xlsm"}

Answer(status, raised, body, service, data) ==
    [status |-> status, raised |-> raised, body |-> body, service |-> service, data |-> data]

\* an HTML page
Page(status, service) == Answer(status, "", PyStr("<html>"), service, <<>>)

\* the engine under a name, "" when `name not in decisionServices`
Engine(ds, name) ==
    IF \E e \in ds : e.name = name THEN (CHOOSE e \in ds : e.name = name).rules ELSE ""

PutKeepingFirst(ds, name, rules) ==
    IF Engine(ds, name) # "" THEN ds ELSE ds \cup {[name |-> name, rules |-> rules]}

\* decisionServices[name] = copy.deepcopy(dmnRules)
Put(ds, name, rules) == {e \in ds : e.name # name} \cup {[name |-> name, rules |-> rules]}

\* upload_file: the answer and the registry after it
FlaskUpload(req, ds) ==
    LET name == req.filename
        parts == Split(name, ".")
        extn == ToLower(parts[Len(parts)])
        decisionServiceName == IF extn \in Excel_EXTENSIONS
                               THEN SubSeq(name, 1, Len(name) - 5)
                               ELSE SubSeq(name, 1, Len(name) - 4)
        bad == <<Page(<<400>>, ""), ds>>
    IN IF req.contentType # "multipart/form-data" \/ ~req.hasFilename THEN bad   \* no 'file' part
       ELSE IF name = "" THEN bad
       ELSE IF Len(parts) = 1 \/ extn \notin ALLOWED_EXTENSIONS THEN bad
       ELSE IF extn \in Excel_EXTENSIONS /\ ~req.loadable THEN bad
       ELSE IF req.errors THEN bad
       ELSE <<Page(<<201>>, req.rules), Put(ds, decisionServiceName, req.rules)>>

\* do_POST on /upload: name and status are not bound on the paths that
\* answer a missing filename or a bad extension, and xml is bound for an
\* XML file only
HandlerUpload(req, ds) ==
    LET parts == Split(req.filename, ".")
        last == parts[Len(parts)]
        filename == IF Len(parts) = 1 THEN req.filename
                    ELSE SubSeq(req.filename, 1, Len(req.filename) - Len(last) - 1)
        extn == IF Len(parts) = 1 THEN "" ELSE ToLower(last)
    IN IF req.contentType # "multipart/form-data" THEN <<Page(<<400>>, ""), ds>>
       ELSE IF ~req.hasFilename \/ extn \notin ALLOWED_EXTENSIONS
       THEN <<Answer(<<200>>, "UnboundLocalError", PyNone, "", <<>>), ds>>
       ELSE IF extn \in Excel_EXTENSIONS /\ ~req.loadable THEN <<Page(<<400>>, ""), ds>>
       ELSE IF req.errors
       THEN IF extn \in Excel_EXTENSIONS
            THEN <<Answer(<<400>>, "UnboundLocalError", PyNone, "", <<>>), ds>>
            ELSE <<Page(<<400>>, ""), ds>>
       ELSE <<Page(<<201>>, req.rules), Put(ds, filename, req.rules)>>

\* do_POST adds the request's stream handler websh to the logger
\* 'DecisionCentral' and leaves it there unless the path taken removes it
\* (Flask's views add none)
HandlerUploadRemoves(req) ==
    LET parts == Split(req.filename, ".")
        extn == IF Len(parts) = 1 THEN "" ELSE ToLower(parts[Len(parts)])
    IN IF req.contentType # "multipart/form-data" THEN TRUE
       ELSE IF ~req.hasFilename \/ extn \notin ALLOWED_EXTENSIONS THEN FALSE
       ELSE IF extn \in Excel_EXTENSIONS /\ ~req.loadable THEN TRUE
       ELSE IF req.errors THEN extn \notin Excel_EXTENSIONS
       ELSE TRUE

HandlerApiRemoves(req, ds, data) ==
    IF Engine(ds, req.name) = "" THEN FALSE
    ELSE IF IsRaise(data) THEN req.contentType = "application/x-www-form-urlencoded"
    ELSE TRUE

\* the stream handlers on the logger after a request that removed its own or not
Left(removes) == IF server = "flask" \/ removes THEN handlers ELSE handlers + 1

\* a request is served: out is the answer and the registry after it, left the
\* number of stream handlers on the logger
Serve(req, out, left) ==
    /\ left <= MaxHandlers
    /\ request' = req
    /\ response' = out[1]
    /\ decisionServices' = out[2]
    /\ servicesBefore' = decisionServices
    /\ handlers' = left
    /\ UNCHANGED <<fn, arg, ret, after, fn0, arg0, server, threads>>

\* POST /upload: a file part of each kind of name, whose workbook cannot be
\* loaded, is in error or is good; a part without a filename; a body that is
\* not multipart
Upload ==
    \E req \in
        {[op |-> "upload", contentType |-> "multipart/form-data", hasFilename |-> TRUE,
          filename |-> f, loadable |-> o[1], errors |-> o[2], rules |-> r] :
            f \in {"rules.xlsx", "loans.XML", "rules.txt"},
            o \in {<<FALSE, FALSE>>, <<TRUE, TRUE>>, <<TRUE, FALSE>>},
            r \in {"r1", "r2"}}
        \cup {[op |-> "upload", contentType |-> c[1], hasFilename |-> c[2],
               filename |-> "", loadable |-> TRUE, errors |-> FALSE, rules |-> "r1"] :
            c \in {<<"multipart/form-data", FALSE>>, <<"application/json", TRUE>>}} :
        Serve(req, IF server = "flask" THEN FlaskUpload(req, decisionServices)
                   ELSE HandlerUpload(req, decisionServices),
              Left(HandlerUploadRemoves(req)))

\* GET /delete/<name>: delete_decision_service, and do_GET, which sends the
\* status line 200 and the headers before it looks the name up
Delete ==
    \E name \in {"rules", "loans"} :
        LET found == Engine(decisionServices, name) # ""
            status == IF server = "flask" \/ found THEN <<200>> ELSE <<200, 400>>
            kept == {e \in decisionServices : e.name # name}
        IN Serve([op |-> "delete", name |-> name], <<Page(status, ""), kept>>, handlers)

\* GET /show/<name>: show_decision_service answers an unknown name with a
\* page, do_GET with send_error(400)
Show ==
    \E name \in {"rules", "loans"} :
        LET service == Engine(decisionServices, name)
            status == IF server = "flask" \/ service # "" THEN <<200>> ELSE <<400>>
        IN Serve([op |-> "show", name |-> name], <<Page(status, service), decisionServices>>, handlers)

ErrorBodyWithoutRules(status) ==
    PyDict(<<"Result", "Status">>, <<PyDict(<<>>, <<>>), status>>)

\* the JSON answer to a bad status: newData rebuilt with an empty 'Result'
\* and an empty 'Executed Rule'
ErrorBody(status) ==
    PyDict(<<"Result", "Executed Rule", "Status">>, <<PyDict(<<>>, <<>>), PyList(<<>>), status>>)

\* the rows appended to returnData['Executed Rule'] for one decision's rules
RuleRows(rule) ==
    IF rule.t = "list" THEN [j \in 1..Len(rule.items) |-> PyList(rule.items[j].items)]
    ELSE <<PyList(rule.items)>>

\* decision_service, data being what convertIn made of the variable: convertIn
\* is called outside any try; a dict result is converted with value[j], j
\* being bound by the list branch only
FlaskApi(req, ds, data) ==
    LET form == req.contentType = "application/x-www-form-urlencoded"
        dmnRules == Engine(ds, req.name)
        found == dmnRules # ""
        status == req.decision.status
        newData == IF req.decision.newData.t = "list"
                   THEN req.decision.newData.items[Len(req.decision.newData.items)]
                   ELSE req.decision.newData
        value == newData.vals[1].vals[1]
        rule == newData.vals[2]
        result == IF value.t = "dict"
                  THEN (IF Len(value.vals) = 0 THEN value ELSE Raise("UnboundLocalError"))
                  ELSE IF value.t = "list"
                  THEN PyList([j \in 1..Len(value.items) |-> FlaskConvertOut(value.items[j])])
                  ELSE FlaskConvertOut(value)
        rules == IF rule.t = "list" THEN PyList(RuleRows(rule)) ELSE PyList(rule.items)
    IN IF ~found THEN (IF form THEN Page(<<200>>, "") ELSE Page(<<400>>, ""))
       ELSE IF IsRaise(data) THEN Answer(<<500>>, data.exc, PyNone, dmnRules, <<>>)
       ELSE IF status.keys = <<"errors">>
       THEN IF form THEN Answer(<<200>>, "", PyStr("<html>"), dmnRules, <<data>>)
            ELSE Answer(<<200>>, "", ErrorBody(status), dmnRules, <<data>>)
       ELSE IF req.accept # "application/json"
       THEN Answer(<<200>>, "", PyStr("<html>"), dmnRules, <<data>>)
       ELSE IF IsRaise(result) THEN Answer(<<500>>, result.exc, PyNone, dmnRules, <<data>>)
       ELSE Answer(<<200>>, "",
                   PyDict(<<"Result", "Executed Rule", "Status">>,
                          <<PyDict(<<"Out">>, <<result>>), rules, status>>),
                   dmnRules, <<data>>)

\* do_POST on /api/<name>, data being what convertIn made of the variable:
\* the form is decoded inside a try that answers 400, the JSON payload's
\* variables outside any try; the rows of every decision of a list are
\* returned, and the result of the last
HandlerApi(req, ds, data) ==
    LET form == req.contentType = "application/x-www-form-urlencoded"
        dmnRules == Engine(ds, req.name)
        found == dmnRules # ""
        status == req.decision.status
        many == req.decision.newData.t = "list"
        all == IF many THEN req.decision.newData.items ELSE <<req.decision.newData>>
        newData == all[Len(all)]
        result == HandlerConvertOut(newData.vals[1].vals[1])
        rules == IF many
                 THEN PyList(IF Len(all) = 1 THEN RuleRows(all[1].vals[2])
                             ELSE RuleRows(all[1].vals[2]) \o RuleRows(all[2].vals[2]))
                 ELSE IF newData.vals[2].t = "list" THEN PyList(RuleRows(newData.vals[2]))
                 ELSE PyList(newData.vals[2].items)
    IN IF ~found THEN Page(<<400>>, "")
       ELSE IF IsRaise(data)
       THEN (IF form THEN Page(<<400>>, dmnRules)
             ELSE Answer(<<>>, data.exc, PyNone, dmnRules, <<>>))
       ELSE IF status.keys = <<"errors">>
       THEN IF req.accept = "application/json"
            THEN Answer(<<200>>, "", ErrorBody(status), dmnRules, <<data>>)
            ELSE Answer(<<200>>, "", PyStr("<html>"), dmnRules, <<data>>)
       ELSE IF req.accept # "application/json"
       THEN Answer(<<200>>, "", PyStr("<html>"), dmnRules, <<data>>)
       ELSE Answer(<<200>>, "",
                   PyDict(<<"Executed Rule", "Result", "Status">>,
                          <<rules, PyDict(<<"Out">>, <<result>>), status>>),
                   dmnRules, <<data>>)

\* POST /api/<name> with one variable.  decide() returns a status, with the
\* key 'errors' when it failed, and newData: one decision or a list of
\* decisions, each a dict of 'Result' and 'Executed Rule', the latter one
\* (decision, table, rule) tuple or a list of them
Api ==
    LET rule == PyTuple(<<PyStr("Decide"), PyStr("Table"), PyStr("R1")>>)
        Decision(value, rules) ==
            PyDict(<<"Result", "Executed Rule">>, <<PyDict(<<"Out">>, <<value>>), rules>>)
        decisions ==
            {[status |-> PyDict(<<"errors">>, <<PyList(<<PyStr("no rule")>>)>>),
              newData |-> PyDict(<<>>, <<>>)]}
            \cup {[status |-> PyDict(<<>>, <<>>), newData |-> d] :
                    d \in {Decision(PyTimedelta(3600000), rule),
                           Decision(PyDict(<<"k">>, <<PyFloat(5000)>>), rule),
                           Decision(PyList(<<PyTimedelta(3600000), PyFloat(5000)>>), rule),
                           PyList(<<Decision(PyInt(18), rule),
                                    Decision(PyBool(TRUE), PyList(<<rule>>))>>)}}
    IN \E name \in {"rules", "loans"} :
       \E contentType \in {"application/x-www-form-urlencoded", "application/json"} :
       \E accept \in {"application/json", "text/html"} :
       \E value \in {PyStr("PxDT"), PyStr("PT1M2M"), PyStr("P1DT2H"), PyStr("@\"PxDT\"")} :
       \E decision \in decisions :
           LET req == [op |-> "api", name |-> name, contentType |-> contentType,
                       accept |-> accept, value |-> value, decision |-> decision]
           IN Serve(req, <<IF server = "flask"
                           THEN FlaskApi(req, decisionServices, FlaskConvertIn(value))
                           ELSE HandlerApi(req, decisionServices, HandlerConvertIn(value)),
                           decisionServices>>,
                      Left(HandlerApiRemoves(req, decisionServices, HandlerConvertIn(value))))

\* either program starts with an empty registry
ServerInit ==
    /\ fn = "none" /\ arg = PyNone /\ ret = PyNone /\ after = PyNone
    /\ fn0 = "none" /\ arg0 = PyNone
    /\ server \in {"flask", "handler"}
    /\ decisionServices = {} /\ servicesBefore = {}
    /\ request = [op |-> "none"] /\ response = [status |-> <<>>]
    /\ handlers = 0 /\ threads = <<>>

ServerNext == Upload \/ Delete \/ Show \/ Api

ServerSpec == ServerInit /\ [][ServerNext]_vars

(***************************************************************************)
(* The threaded server.  ThreadedHTTPServer mixes ThreadingMixIn into       *)
(* HTTPServer: every request runs do_GET or do_POST in a thread of its own, *)
(* all on the one module-level dict decisionServices and without a lock.    *)
(* One operation on the dict is one step; a thread may be suspended between *)
(* any two of its steps.  threads[t] is the position of thread t: pc, the   *)
(* request it serves, the size and position of its dict iterator and the    *)
(* exception that ended it.                                                 *)
(***************************************************************************)
Threads == {"Thread-1", "Thread-2"}

Thread(pc, op, name, size, pos, raised) ==
    [pc |-> pc, op |-> op, name |-> name, size |-> size, pos |-> pos, raised |-> raised]

Idle == Thread("idle", "", "", 0, 0, "")

\* thread t moves to position th, the dict becoming ds
Step(t, th, ds) ==
    /\ threads' = [threads EXCEPT ![t] = th]
    /\ decisionServices' = ds
    /\ UNCHANGED <<fn, arg, ret, after, fn0, arg0, server, servicesBefore, request, response, handlers>>

\* the server hands a request to a new thread
Accept(t) ==
    /\ threads[t].pc = "idle"
    /\ \E op \in {"upload", "delete", "api", "splash"} : \E name \in {"rules", "loans"} :
           (op = "splash" => name = "rules")
           /\ Step(t, Thread(IF op = "upload" THEN "put" ELSE IF op = "splash" THEN "iter" ELSE "check",
                             op, IF op = "splash" THEN "" ELSE name, 0, 0, ""),
                   decisionServices)

\* if name not in decisionServices: send_error(400); return
Check(t) ==
    /\ threads[t].pc = "check"
    /\ Step(t, [threads[t] EXCEPT !.pc = IF Engine(decisionServices, threads[t].name) = "" THEN "done" ELSE "act"],
            decisionServices)

\* del decisionServices[name]
DeleteService(t) ==
    /\ threads[t].pc = "act" /\ threads[t].op = "delete"
    /\ Step(t, [threads[t] EXCEPT !.pc = "done",
                                  !.raised = IF Engine(decisionServices, threads[t].name) = "" THEN "KeyError" ELSE ""],
            {e \in decisionServices : e.name # threads[t].name})

\* dmnRules = decisionServices[name]
ReadService(t) ==
    /\ threads[t].pc = "act" /\ threads[t].op = "api"
    /\ Step(t, [threads[t] EXCEPT !.pc = "done",
                                  !.raised = IF Engine(decisionServices, threads[t].name) = "" THEN "KeyError" ELSE ""],
            decisionServices)

\* decisionServices[filename] = copy.deepcopy(dmnRules)
PutService(t) ==
    /\ threads[t].pc = "put"
    /\ Step(t, [threads[t] EXCEPT !.pc = "done"], Put(decisionServices, threads[t].name, "r1"))

\* for name in decisionServices: the iterator remembers the size of the dict
IterStart(t) ==
    /\ threads[t].pc = "iter"
    /\ Step(t, [threads[t] EXCEPT !.pc = "next", !.size = Cardinality(decisionServices)], decisionServices)

\* the iterator's next(): RuntimeError('dictionary changed size during
\* iteration') when the dict no longer has the size remembered
IterNext(t) ==
    /\ threads[t].pc = "next"
    /\ Step(t, IF Cardinality(decisionServices) # threads[t].size
               THEN [threads[t] EXCEPT !.pc = "done", !.raised = "RuntimeError"]
               ELSE IF threads[t].pos = threads[t].size THEN [threads[t] EXCEPT !.pc = "done"]
               ELSE [threads[t] EXCEPT !.pos = @ + 1],
            decisionServices)

\* the request is finished and its thread ends
Return(t) ==
    /\ threads[t].pc = "done"
    /\ Step(t, Idle, decisionServices)

ThreadInit ==
    /\ fn = "none" /\ arg = PyNone /\ ret = PyNone /\ after = PyNone
    /\ fn0 = "none" /\ arg0 = PyNone
    /\ server = "handler"
    /\ decisionServices = {} /\ servicesBefore = {}
    /\ request = [op |-> "none"] /\ response = [status |-> <<>>]
    /\ handlers = 0
    /\ threads = [t \in Threads |-> Idle]

ThreadNext ==
    \E t \in Threads :
        \/ Accept(t)
        \/ Check(t)
        \/ DeleteService(t)
        \/ ReadService(t)
        \/ PutService(t)
        \/ IterStart(t)
        \/ IterNext(t)
        \/ Return(t)

ThreadSpec == ThreadInit /\ [][ThreadNext]_vars

(***************************************************************************)
(* Properties of the request layer.                                        *)
(***************************************************************************)
\* the names registered in a registry
Registered(ds) == {e.name : e \in ds}

\* the last request was POST /api/<name> for a registered name
ApiServed == request.op = "api" /\ request.name \in Registered(decisionServices)

\* convertIn of the running program ended in an exception on the request's variable
DecodingFailed ==
    IsRaise(IF server = "flask" THEN FlaskConvertIn(request.value)
            ELSE HandlerConvertIn(request.value))

\* C14 - malformed input is a client error: when decoding the variable of a
\* POST /api/<service> request fails, the answer is one 4xx status line and
\* no exception leaves the handler; the variable never reaches the engine.
C14_MalformedInputRejected ==
    (ApiServed /\ DecodingFailed) =>
        /\ Len(response.status) = 1
        /\ response.status[1] \in 400..499
        /\ response.raised = ""
        /\ response.data = <<>>

\* the Flask application answers the variable "PxDT" with 500, the ValueError
\* of int('x') having left decision_service
C14_FlaskValueError ==
    /\ server = "flask" /\ ApiServed
    /\ request.value = PyStr("PxDT")
    /\ response.status = <<500>>
    /\ response.raised = "ValueError"

\* the value under key k of a dict that has it
Get(d, k) == d.vals[CHOOSE i \in 1..Len(d.keys) : d.keys[i] = k]

\* the last request was POST /api/<name>, answered 200 with a JSON body
IsJson200 ==
    /\ request.op = "api"
    /\ 200 \in {response.status[i] : i \in 1..Len(response.status)}
    /\ response.body.t = "dict"

\* C17 - decision API response shape: a 200 JSON answer of POST /api/<service>
\* is an object with exactly the keys "Result", "Executed Rule" and "Status",
\* "Result" an object and "Executed Rule" an array, both empty when the
\* engine reported errors.
C17_ResponseShape ==
    IsJson200 =>
        /\ Len(response.body.keys) = 3
        /\ {response.body.keys[i] : i \in 1..3} = {"Result", "Executed Rule", "Status"}
        /\ Get(response.body, "Result").t = "dict"
        /\ Get(response.body, "Executed Rule").t = "list"
        /\ request.decision.status.keys = <<"errors">> =>
            /\ Get(response.body, "Result").keys = <<>>
            /\ Get(response.body, "Executed Rule").items = <<>>

\* the handler answers a list of two decisions with a row for each executed
\* rule and the last decision's result
C17_ListOfDecisions ==
    /\ server = "handler" /\ IsJson200
    /\ request.decision.newData.t = "list"
    /\ Len(Get(response.body, "Executed Rule").items) = 2
    /\ Get(response.body, "Result").keys = <<"Out">>

\* C18 - delete contract: GET /delete/<name> for a registered name answers 200
\* and removes that name alone from decisionServices; for a name that is not
\* registered the one status line is 400 and decisionServices is unchanged.
C18_DeleteContract ==
    request.op = "delete" =>
        IF request.name \in Registered(servicesBefore)
        THEN /\ response.status = <<200>>
             /\ decisionServices = {e \in servicesBefore : e.name # request.name}
        ELSE /\ response.status = <<400>>
             /\ decisionServices = servicesBefore

\* the handler has sent the status line 200 before the 400 of send_error
C18_HandlerTwoStatusLines ==
    /\ server = "handler" /\ request.op = "delete"
    /\ request.name \notin Registered(servicesBefore)
    /\ response.status = <<200, 400>>
    /\ decisionServices = servicesBefore

\* the lower-cased extension of an uploaded file's name, "" when it has none
ExtensionOf(f) ==
    LET parts == Split(f, ".")
    IN IF Len(parts) = 1 THEN "" ELSE ToLower(parts[Len(parts)])

\* the last request was an upload of a file part that is invalid
InvalidUpload ==
    /\ request.op = "upload" /\ request.contentType = "multipart/form-data"
    /\ \/ ~request.hasFilename
       \/ ExtensionOf(request.filename) \notin {"xlsx", "xlsm", "xml", "dmn"}
       \/ ExtensionOf(request.filename) \in {"xlsx", "xlsm"} /\ ~request.loadable
       \/ request.loadable /\ request.errors

\* C19 - upload rejection: an upload with no filename, an extension that is
\* not allowed, a workbook that cannot be loaded or a file in which the engine
\* finds errors is answered with status 400, no exception leaves the handler,
\* and decisionServices is as it was.
C19_UploadRejection ==
    InvalidUpload =>
        /\ response.status = <<400>>
        /\ response.raised = ""
        /\ decisionServices = servicesBefore

\* the handler answers rules.txt with status 200, and the unbound name leaves
\* do_POST as an exception
C19_HandlerBadExtension ==
    /\ server = "handler" /\ request.op = "upload"
    /\ request.hasFilename /\ request.filename = "rules.txt"
    /\ response.status = <<200>>
    /\ response.raised = "UnboundLocalError"
    /\ decisionServices = servicesBefore

\* the last request was an upload of a file with an allowed extension that the
\* engine parsed without errors
ValidUpload ==
    /\ request.op = "upload" /\ request.contentType = "multipart/form-data"
    /\ request.hasFilename
    /\ ExtensionOf(request.filename) \in {"xlsx", "xlsm", "xml", "dmn"}
    /\ ExtensionOf(request.filename) \in {"xlsx", "xlsm"} => request.loadable
    /\ ~request.errors

\* a file name without its extension
WithoutExtension(f) == SubSeq(f, 1, Len(f) - Len(ExtensionOf(f)) - 1)

\* C20 - upload success and availability: a valid upload answers 201 and
\* registers its rules under the file name without extension, in place of any
\* service of that name; no other upload changes decisionServices, and no
\* request but an upload or a delete does; GET /show/<name> and
\* POST /api/<name> find the service registered under <name>, which is the
\* one uploaded last and not deleted since, and find none when none is
\* registered.
C20_UploadAvailability ==
    /\ ValidUpload =>
        /\ response.status = <<201>>
        /\ decisionServices =
             {e \in servicesBefore : e.name # WithoutExtension(request.filename)}
             \cup {[name |-> WithoutExtension(request.filename), rules |-> request.rules]}
    /\ (request.op = "upload" /\ ~ValidUpload) => decisionServices = servicesBefore
    /\ request.op \in {"show", "api"} =>
        /\ decisionServices = servicesBefore
        /\ response.service =
             IF request.name \in Registered(servicesBefore)
             THEN (CHOOSE e \in servicesBefore : e.name = request.name).rules
             ELSE ""
    /\ request.op = "delete" =>
        decisionServices = {e \in servicesBefore : e.name # request.name}
    /\ \A e \in decisionServices : \A f \in decisionServices : e.name = f.name => e = f

\* rules.xlsx is uploaded a second time with other rules, which take the
\* place of the first
C20_ServiceReplaced ==
    /\ ValidUpload /\ request.filename = "rules.xlsx" /\ request.rules = "r2"
    /\ [name |-> "rules", rules |-> "r1"] \in servicesBefore
    /\ [name |-> "rules", rules |-> "r2"] \in decisionServices
    /\ response.status = <<201>>

(***************************************************************************)
(* Properties of the duration and date grammars.                           *)
(***************************************************************************)
\* the literals [-]P<y>Y[<m>M] among the texts
IsYMLiteral(s) == s \in YMLiterals \cup {"P1Y6M", "-P1Y6M", "P10Y11M", "P0Y13M"}

\* the month total the grammar gives a literal [-]P<y>Y[<m>M]
YMTotal(s) ==
    LET neg == Char(s, 1) = "-"
        p == Split(From(s, IF neg THEN 3 ELSE 2), "Y")
        total == 12 * DigitsVal(p[1]) + DigitsVal(Split(p[2], "M")[1])
    IN IF neg THEN -total ELSE total

\* C21 - year-month duration parse: decoding [-]P<y>Y[<m>M] returns the
\* integer 12*y + m, an absent M component counting as 0, negated as a whole
\* under a leading '-'.
C21_YearMonthParse ==
    (FirstCallOnText("FlaskConvertIn") /\ IsYMLiteral(arg.s)) => ret = PyInt(YMTotal(arg.s))

\* the literal of the claim ends in the ValueError of int('P1')
C21_NegativeRaises ==
    /\ FirstCallOnText("FlaskConvertIn")
    /\ arg = PyStr("-P1Y6M")
    /\ ret = Raise("ValueError")

\* [-]P<|t| div 12>Y<|t| mod 12>M, both components printed
YMPrinted(t) ==
    LET a == IF t < 0 THEN -t ELSE t
    IN (IF t < 0 THEN "-" ELSE "") \o "P" \o NatStr(a \div 12) \o "Y" \o NatStr(a % 12) \o "M"

\* C22 - year-month duration print: a wrapped-mode convertOut prints the month
\* total t as [-]P<|t| div 12>Y<|t| mod 12>M inside the escape markers, the '-'
\* present exactly when t < 0, and decoding the printed literal gives back t.
C22_YearMonthPrint ==
    (FirstCall(WrappedConvertOutFns) /\ arg.t = "int") =>
        /\ ret = PyStr("@\"" \o YMPrinted(arg.n) \o "\"")
        /\ FlaskConvertIn(PyStr(YMPrinted(arg.n))) = arg

\* -18 is printed as -P1Y6M, which convertIn does not decode
C22_NegativeNotParsedBack ==
    /\ FirstCall({"HandlerConvertOut"})
    /\ arg = PyInt(-18)
    /\ ret = PyStr("@\"-P1Y6M\"")
    /\ IsRaise(FlaskConvertIn(PyStr("-P1Y6M")))

\* the milliseconds of d days, h hours, m minutes and s seconds, a component
\* that is absent (-1) counting as zero
DTMillis(d, h, m, s) ==
    LET Z(c) == IF c < 0 THEN 0 ELSE c
    IN (Z(d) * 86400 + Z(h) * 3600 + Z(m) * 60 + Z(s)) * 1000

DTPrinted(ms, secs) ==
    LET S == (IF ms < 0 THEN -ms ELSE ms) \div 1000
    IN (IF ms < 0 THEN "-" ELSE "")
       \o "P" \o NatStr(S \div 86400) \o "DT" \o NatStr((S \div 3600) % 24) \o "H"
       \o NatStr((S \div 60) % 60) \o "M" \o secs \o "S"

\* the seconds field of a whole number of seconds, as %d or as %f prints it
WholeSeconds(ms) ==
    LET s == ((IF ms < 0 THEN -ms ELSE ms) \div 1000) % 60
    IN {NatStr(s), NatStr(s) \o ".000000"}

\* C24 - day-time duration print: convertOut of the handler, of the questioner
\* and of Flask prints a duration of S whole seconds from the magnitude |S| as
\* P<days>DT<hours>H<minutes>M<seconds>S, with '-' in front if and only if
\* S < 0 (between the markers of the wrapping escape in wrapped mode).
C24_DayTimePrint ==
    (FirstCall(ConvertOutFns) /\ arg.t = "timedelta" /\ arg.ms % 1000 = 0) =>
        /\ ret.t = "str"
        /\ \E secs \in WholeSeconds(arg.ms) :
               ret.s = IF fn = "FlaskConvertOut" THEN DTPrinted(arg.ms, secs)
                       ELSE "@\"" \o DTPrinted(arg.ms, secs) \o "\""

\* C24 - Flask's convertOut was given a duration of -90 seconds and printed
\* the fields of the negative number with no sign in front
C24_FlaskNegativePrinted ==
    /\ FirstCall({"FlaskConvertOut"})
    /\ arg = PyTimedelta(-90000)
    /\ ret = PyStr("P0DT0H59M30S")

\* the seconds component of a day-time duration literal with seconds only, PT<s>S
SecondsText(s) == Split(Split(s, "T")[2], "S")[1]

\* the literals of the catalogue whose seconds component has a fraction
FractionLiterals == {"PT1.5S", "PT0.25S", "PT1.001S"}

\* the seconds field of a duration with its milliseconds, as %f or str() prints it
FractionalSeconds(ms) ==
    LET m == (IF ms < 0 THEN -ms ELSE ms) % 60000
    IN {FormatF(m), StrOf(PyFloat(m))}

\* C25 - fractional seconds survive: Flask's convertIn keeps exactly the k
\* milliseconds of the seconds component of a day-time duration literal, and
\* convertOut of the handler, of the questioner and of Flask prints a duration
\* with k > 0 milliseconds with a seconds field that still carries them.
C25_FractionSurvives ==
    /\ (FirstCallOnText("FlaskConvertIn") /\ arg.s \in FractionLiterals) =>
           ret = PyTimedelta(FloatOfStr(SecondsText(arg.s)).m)
    /\ (FirstCall(ConvertOutFns) /\ arg.t = "timedelta" /\ arg.ms > 0 /\ arg.ms % 1000 # 0) =>
           /\ ret.t = "str"
           /\ \E secs \in FractionalSeconds(arg.ms) :
                  ret.s = IF fn = "FlaskConvertOut" THEN DTPrinted(arg.ms, secs)
                          ELSE "@\"" \o DTPrinted(arg.ms, secs) \o "\""

\* C25 - the print half alone, for the two wrapped-mode encoders
C25_WrappedKeepsFraction ==
    (FirstCall(WrappedConvertOutFns) /\ arg.t = "timedelta" /\ arg.ms > 0 /\ arg.ms % 1000 # 0) =>
        ret = PyStr("@\"" \o DTPrinted(arg.ms, FormatF(arg.ms % 60000)) \o "\"")

\* C25 - Flask's convertOut was given a duration of 1.5 seconds and printed
\* one whole second
C25_FlaskTruncates ==
    /\ FirstCall({"FlaskConvertOut"})
    /\ arg = PyTimedelta(1500)
    /\ ret = PyStr("P0DT0H0M1S")

\* C25 - Flask's convertIn was given PT1.001S and returned one second
C25_MillisecondLost ==
    /\ FirstCallOnText("FlaskConvertIn")
    /\ arg = PyStr("PT1.001S")
    /\ ret = PyTimedelta(1000)

\* v is, or holds at some depth, a string still in the wrapping escape
RECURSIVE StillWrapped(_)
StillWrapped(v) ==
    \/ v.t = "str" /\ IsAtString(v.s)
    \/ v.t = "list" /\ \E i \in 1..Len(v.items) : StillWrapped(v.items[i])
    \/ v.t = "dict" /\ \E i \in 1..Len(v.vals) : StillWrapped(v.vals[i])

\* C26 - string invariant after decode: no convertIn returns a string that
\* begins with @" and ends with " (a wrapped input is converted or reported
\* as an error, never handed on still wrapped), and Flask's convertIn returns
\* for a quoted STRING token the text with its one outer pair of quotes removed.
C26_NoWrappedString ==
    /\ FirstCall(ConvertInFns) => ~StillWrapped(ret)
    /\ (FirstCallOnText("FlaskConvertIn") /\ tokenize(arg.s) = <<"STRING">>) =>
           ret = PyStr(SubSeq(arg.s, 2, Len(arg.s) - 1))

\* C26 - the second half alone: the STRING branch strips one pair of quotes
C26_StringStripped ==
    (FirstCallOnText("FlaskConvertIn") /\ tokenize(arg.s) = <<"STRING">>) =>
        ret = PyStr(SubSeq(arg.s, 2, Len(arg.s) - 1))

\* C26 - the handler's convertIn was given a wrapped text the parser reports
\* errors for and returned it as it was, still wrapped
C26_HandedOnWrapped ==
    /\ FirstCallOnText("HandlerConvertIn")
    /\ arg = PyStr("@\"PxDT\"")
    /\ ret = arg

(***************************************************************************)
(* Properties of dates and date-times.                                     *)
(***************************************************************************)
\* the text convertOut returned, without the markers of the wrapping escape
Printed(f, r) == IF f = "FlaskConvertOut" THEN r.s ELSE AtStringInner(r.s)

\* C27 - date and date-time printing: every convertOut prints a datetime as
\* its date, the one character 'T', its time of day and its offset if it has
\* one, although a datetime passes the earlier test for a date; it prints a
\* date as the calendar date alone; and Flask's convertIn returns for a DATE
\* literal a date, a value with no time of day and no offset.
C27_DateTimePrint ==
    /\ (FirstCall(ConvertOutFns) /\ arg.t = "datetime") =>
           /\ ret.t = "str"
           /\ fn # "FlaskConvertOut" => IsAtString(ret.s)
           /\ SubSeq(Printed(fn, ret), 1, 10) = DateIso(arg)
           /\ Char(Printed(fn, ret), 11) = "T"
           /\ SubSeq(Printed(fn, ret), 12, 19) = ClockIso(arg)
           /\ \A i \in 1..Len(Printed(fn, ret)) : i # 11 => Char(Printed(fn, ret), i) \notin {"T", " "}
    /\ (FirstCall(ConvertOutFns) /\ arg.t = "date") =>
           /\ ret.t = "str"
           /\ fn # "FlaskConvertOut" => IsAtString(ret.s)
           /\ Printed(fn, ret) = DateIso(arg)
    /\ (FirstCallOnText("FlaskConvertIn") /\ IsLiteral(arg.s) /\ tokenize(arg.s) = <<"DATE">>) =>
           /\ ret.t = "date"
           /\ DOMAIN ret = {"t", "y", "mo", "d"}

\* C27 - the handler's convertOut was given a datetime with a zone and
\* printed it, in its branch for dates, with 'T' and the time of day
C27_DateTimeWithT ==
    /\ FirstCall({"HandlerConvertOut"})
    /\ arg = PyDateTime(2020, 1, 1, 10, 0, 0, "Australia/Sydney")
    /\ ret = PyStr("@\"2020-01-01T10:00:00+11:00\"")

(***************************************************************************)
(* Properties of the Flask JSON response.                                  *)
(***************************************************************************)
\* the engine's result for the variable of the last executed decision
EngineResult ==
    LET d == request.decision.newData
        last == IF d.t = "list" THEN d.items[Len(d.items)] ELSE d
    IN last.vals[1].vals[1]

\* Flask served POST /api/<name> with a decision to return as JSON
FlaskJsonDecision ==
    /\ server = "flask"
    /\ ApiServed
    /\ request.accept = "application/json"
    /\ ~DecodingFailed
    /\ request.decision.status.keys # <<"errors">>

\* C30 - per-key encoding of map results: when the engine's result for a
\* variable is a dict, Flask's JSON response has under Result[variable] a dict
\* with the same keys and convertOut of the engine's value at each key; when
\* it is a list, the list of convertOut of each element in order; building the
\* response does not fail for either.
C30_MapResultEncoded ==
    (FlaskJsonDecision /\ EngineResult.t \in {"dict", "list"}) =>
        /\ response.status = <<200>>
        /\ response.raised = ""
        /\ response.body.t = "dict"
        /\ LET out == response.body.vals[1].vals[1]
           IN IF EngineResult.t = "dict"
              THEN /\ out.t = "dict"
                   /\ out.keys = EngineResult.keys
                   /\ \A k \in 1..Len(out.keys) : out.vals[k] = FlaskConvertOut(EngineResult.vals[k])
              ELSE /\ out.t = "list"
                   /\ Len(out.items) = Len(EngineResult.items)
                   /\ \A j \in 1..Len(out.items) : out.items[j] = FlaskConvertOut(EngineResult.items[j])

\* C30 - the list half alone
C30_ListResultEncoded ==
    (FlaskJsonDecision /\ EngineResult.t = "list") =>
        /\ response.status = <<200>>
        /\ response.body.vals[1].vals[1] =
               PyList([j \in 1..Len(EngineResult.items) |-> FlaskConvertOut(EngineResult.items[j])])

\* C30 - Flask was asked for JSON, the engine's result was a dict with one
\* key, and the request ended in an UnboundLocalError, answered 500
C30_DictResultFails ==
    /\ FlaskJsonDecision
    /\ EngineResult = PyDict(<<"k">>, <<PyFloat(5000)>>)
    /\ response.status = <<500>>
    /\ response.raised = "UnboundLocalError"

(***************************************************************************)
(* Properties of the logger.                                               *)
(***************************************************************************)
\* C29 - logging handler cleanup: on every exit path of do_POST the stream
\* handler the request added to the logger 'DecisionCentral' has been removed
\* again, so after any sequence of requests no handler of a finished request
\* is left on the logger.
C29_HandlerRemoved == handlers = 0

\* C29 - the handler program answered POST /api/<name> for an unknown name
\* with 400 and returned with the request's stream handler still on the logger
C29_HandlerLeft ==
    /\ server = "handler"
    /\ request.op = "api"
    /\ request.name \notin Registered(servicesBefore)
    /\ response.status = <<400>>
    /\ handlers = 1

(***************************************************************************)
(* Properties of the threaded server.                                      *)
(***************************************************************************)
\* C28 - no lost service under interleaving: in the threaded server no
\* interleaving of requests on the shared dict decisionServices ends a thread
\* in an exception: a thread that passed its `name in decisionServices` test
\* finds the name at its read or del, and the iteration of the splash page
\* over the dict completes.
C28_NoLostService == \A t \in Threads : threads[t].raised = ""

\* C28 - two threads serve /delete/rules: both passed the test, one has
\* deleted the service and ended, the other's del raised KeyError
C28_DeleteRaced ==
    \E t, u \in Threads :
        /\ t # u
        /\ threads[t].op = "delete" /\ threads[t].name = "rules" /\ threads[t].raised = "KeyError"
        /\ threads[u].op = "delete" /\ threads[u].name = "rules"
        /\ threads[u].pc = "done" /\ threads[u].raised = ""

\* C28 - the splash page's iteration ended in RuntimeError
C28_IterationBroken ==
    \E t \in Threads : threads[t].op = "splash" /\ threads[t].raised = "RuntimeError"
====
